---- MODULE Spec2Model ----
(***************************************************************************)
(* uqbasejump: an interactive arbitrary-base calculator.                   *)
(*                                                                         *)
(* The module models the numeral codec and the expression transliterator  *)
(* and evaluator of uqbasejump.h, and the keystroke-driven session loop of *)
(* uqbasejump.c (stdrd_input_expr_evaluation and its handlers).            *)
(*                                                                         *)
(* Text is a sequence of one-character strings.  The special keys are the  *)
(* strings ENTER, ESC and BACK_SPACE.  An unsigned long long is a sequence *)
(* of four 16-bit limbs, least significant first, so that the arithmetic   *)
(* modulo 2^64 of the C code is computed exactly.                          *)
(***************************************************************************)
EXTENDS Integers, Sequences, FiniteSets, TLC

(***************************************************************************)
(* Program constants (uqbasejump.c).                                       *)
(***************************************************************************)
MAX_BASE == 36
MIN_BASE == 2
MAX_INPUT == 64
MAX_CMD_INPUT == 128
DECIMAL == 10
BINARY == 2
HEX == 16
EXIT_INV_COMM_ARGS == 17

ENTER == "\n"
ESC == "ESC"
BACK_SPACE == "BACKSPACE"

(***************************************************************************)
(* Bounds of the exploration.                                              *)
(***************************************************************************)
\* A Raw Token Buffer of more than MaxTok characters is explored only as a
\* run of the key Filler, typed in a session that holds no other text.
MaxTok == 2
\* The text a session holds (both buffers and the expressions of the history)
\* is explored up to MaxText characters; a first commit and a first history
\* entry are explored whatever their length.
MaxText == 3
\* Command state is entered from sessions that hold at most MaxCmdText
\* characters of text.
MaxCmdText == 2
\* A command text of more than MaxCmdLine characters is typed only in a
\* session that holds no text at all.
MaxCmdLine == 5
\* Evaluation is followed while every intermediate value is a fraction whose
\* numerator and denominator stay below this magnitude (there the double
\* arithmetic of the evaluator is exact).
MaxMagnitude == 32768

(***************************************************************************)
(* Characters.                                                             *)
(***************************************************************************)
DigitChars == <<"0", "1", "2", "3", "4", "5", "6", "7", "8", "9">>
UpperChars == <<"A", "B", "C", "D", "E", "F", "G", "H", "I", "J", "K", "L", "M",
                "N", "O", "P", "Q", "R", "S", "T", "U", "V", "W", "X", "Y", "Z">>
LowerChars == <<"a", "b", "c", "d", "e", "f", "g", "h", "i", "j", "k", "l", "m",
                "n", "o", "p", "q", "r", "s", "t", "u", "v", "w", "x", "y", "z">>

IndexOf(seq, c) == IF \E i \in DOMAIN seq : seq[i] = c
                   THEN CHOOSE i \in DOMAIN seq : seq[i] = c
                   ELSE 0

isdigit(c) == IndexOf(DigitChars, c) > 0
isalpha(c) == IndexOf(UpperChars, c) > 0 \/ IndexOf(LowerChars, c) > 0
isspace(c) == c \in {" ", "\t", "\n", "\r"}
toupper(c) == IF IndexOf(LowerChars, c) > 0 THEN UpperChars[IndexOf(LowerChars, c)] ELSE c

char_to_digit(c) ==
    IF IndexOf(DigitChars, c) > 0 THEN IndexOf(DigitChars, c) - 1
    ELSE IF IndexOf(LowerChars, c) > 0 THEN IndexOf(LowerChars, c) - 1 + 10
    ELSE IF IndexOf(UpperChars, c) > 0 THEN IndexOf(UpperChars, c) - 1 + 10
    ELSE -1

\* digit_to_char writing the letter digits in lowercase.
digit_to_char_lower(digit) ==
    IF digit >= 0 /\ digit <= 9 THEN DigitChars[digit + 1]
    ELSE IF digit >= 10 /\ digit <= 35 THEN LowerChars[digit - 10 + 1]
    ELSE "?"

digit_to_char(digit) ==
    IF digit >= 0 /\ digit <= 9 THEN DigitChars[digit + 1]
    ELSE IF digit >= 10 /\ digit <= 35 THEN UpperChars[digit - 10 + 1]
    ELSE "?"

\* is_operator without the power sign.
is_operator_four(c) == c \in {"+", "-", "*", "/", "%", "(", ")"}

is_operator(c) == c \in {"+", "-", "*", "/", "%", "(", ")", "^"}

(***************************************************************************)
(* unsigned long long: four limbs of 16 bits, least significant first.     *)
(***************************************************************************)
LimbBase == 256 * 256
U64Zero == <<0, 0, 0, 0>>
\* The unsigned long long of a natural number below 2^31.
U64(n) == <<n % LimbBase, n \div LimbBase, 0, 0>>

\* value * base + digit, modulo 2^64, and the carry out of bit 63.
U64MulAddFull(v, base, digit) ==
    LET t1 == v[1] * base + digit
        t2 == v[2] * base + (t1 \div LimbBase)
        t3 == v[3] * base + (t2 \div LimbBase)
        t4 == v[4] * base + (t3 \div LimbBase)
    IN  [val |-> <<t1 % LimbBase, t2 % LimbBase, t3 % LimbBase, t4 % LimbBase>>,
         carry |-> t4 \div LimbBase]

U64MulAdd(v, base, digit) == U64MulAddFull(v, base, digit).val

\* value / base and value % base.
U64DivMod(v, base) ==
    LET c4 == v[4]
        c3 == (c4 % base) * LimbBase + v[3]
        c2 == (c3 % base) * LimbBase + v[2]
        c1 == (c2 % base) * LimbBase + v[1]
    IN  [quot |-> <<c1 \div base, c2 \div base, c3 \div base, c4 \div base>>,
         rem |-> c1 % base]

\* v < 2^53
U64Below2Pow53(v) == v[4] < 32

(***************************************************************************)
(* Numeral codec (uqbasejump.h).  A char* result is a record: ok = FALSE   *)
(* is the NULL pointer.                                                    *)
(***************************************************************************)
NULL == [ok |-> FALSE, str |-> <<>>]
Str(s) == [ok |-> TRUE, str |-> s]

\* The accumulation loop refusing a value that leaves 64 bits.
ParseStepChecked(st, base, c) ==
    LET digit == char_to_digit(c)
    IN  IF ~st.ok \/ digit < 0 \/ digit >= base
           \/ U64MulAddFull(st.value, base, digit).carry > 0
        THEN [ok |-> FALSE, value |-> U64Zero]
        ELSE [ok |-> TRUE, value |-> U64MulAdd(st.value, base, digit)]

\* One iteration of the accumulation loop shared by the two parsers:
\* value = value * base + digit modulo 2^64, or ok = FALSE once a character
\* that is no digit of the base has been met.
ParseStep(st, base, c) ==
    LET digit == char_to_digit(c)
    IN  IF ~st.ok \/ digit < 0 \/ digit >= base
        THEN [ok |-> FALSE, value |-> U64Zero]
        ELSE [ok |-> TRUE, value |-> U64MulAdd(st.value, base, digit)]

\* The iterations for input[lo..hi] in order, from state st.  The range is
\* halved so that a 64-character numeral is evaluated at a shallow depth.
RECURSIVE ParseRange(_, _, _, _, _)
ParseRange(input, base, lo, hi, st) ==
    IF lo > hi THEN st
    ELSE IF lo = hi THEN ParseStep(st, base, input[lo])
    ELSE LET mid == (lo + hi) \div 2
             left == ParseRange(input, base, lo, mid, st)
         IN  IF ~left.ok THEN left
             ELSE ParseRange(input, base, mid + 1, hi, left)

ParseLoop(input, base) ==
    ParseRange(input, base, 1, Len(input), [ok |-> TRUE, value |-> U64Zero])

\* The digit loop writing each digit behind the digits written so far.
FormatStepLeastFirst(st, outputBase) ==
    IF st.value = U64Zero THEN st
    ELSE [value |-> U64DivMod(st.value, outputBase).quot,
          buffer |-> st.buffer \o <<digit_to_char(U64DivMod(st.value, outputBase).rem)>>]

\* One iteration of the digit loop of convert_int_to_str_any_base: the next
\* digit is written in front of the digits written so far.
FormatStep(st, outputBase) ==
    IF st.value = U64Zero THEN st
    ELSE LET dm == U64DivMod(st.value, outputBase)
         IN  [value |-> dm.quot, buffer |-> <<digit_to_char(dm.rem)>> \o st.buffer]

\* n iterations of the digit loop (it ends when the value reaches 0).
RECURSIVE FormatIter(_, _, _)
FormatIter(st, outputBase, n) ==
    IF n = 0 \/ st.value = U64Zero THEN st
    ELSE IF n = 1 THEN FormatStep(st, outputBase)
    ELSE LET half == FormatIter(st, outputBase, n \div 2)
         IN  IF half.value = U64Zero THEN half
             ELSE FormatIter(half, outputBase, n - (n \div 2))

\* A 64-bit value has at most 64 digits (char buffer[65]).
FormatLoop(value, outputBase) ==
    FormatIter([value |-> value, buffer |-> <<>>], outputBase, 64).buffer

convert_int_to_str_any_base(value, outputBase) ==
    IF outputBase < 2 \/ outputBase > 36 THEN NULL
    ELSE IF value = U64Zero THEN Str(<<"0">>)
    ELSE Str(FormatLoop(value, outputBase))

\* sprintf(result, "%llu", value)
SprintfLLU(value) == IF value = U64Zero THEN <<"0">> ELSE FormatLoop(value, 10)

\* strtoull reading the text in base 16.
StrtoullHex(text) == ParseLoop(text, HEX).value

\* strtoull(text, NULL, 10) of a text sprintf("%llu") wrote
Strtoull(text) == ParseLoop(text, 10).value

convert_any_base_to_base_ten(input, base) ==
    IF ~input.ok \/ base < 2 \/ base > 36 THEN NULL
    ELSE LET r == ParseLoop(input.str, base)
         IN  IF r.ok THEN Str(SprintfLLU(r.value)) ELSE NULL

convert_str_to_int_any_base(input, base) ==
    IF ~input.ok \/ base < 2 \/ base > 36 THEN U64Zero
    ELSE ParseLoop(input.str, base).value

(***************************************************************************)
(* Expression transliterator (uqbasejump.h).                               *)
(***************************************************************************)
\* The index after the maximal run of inputBase digits that starts at i.
NumeralEnd(expression, inputBase, i) ==
    LET stops == {k \in i..Len(expression) :
                     char_to_digit(expression[k]) < 0
                     \/ char_to_digit(expression[k]) >= inputBase}
    IN  IF stops = {} THEN Len(expression) + 1
        ELSE CHOOSE k \in stops : \A m \in stops : k <= m

RECURSIVE ConvertLoop(_, _, _, _, _)
ConvertLoop(expression, inputBase, outputBase, i, result) ==
    IF i > Len(expression) THEN Str(result)
    ELSE LET c == expression[i]
             digit == char_to_digit(c)
         IN  IF digit >= 0 /\ digit < inputBase
             THEN LET j == NumeralEnd(expression, inputBase, i)
                      numStr == SubSeq(expression, i, j - 1)
                      baseTen == convert_any_base_to_base_ten(Str(numStr), inputBase)
                  IN  IF ~baseTen.ok THEN NULL
                      ELSE LET converted == convert_int_to_str_any_base(
                                                Strtoull(baseTen.str), outputBase)
                           IN  IF ~converted.ok THEN NULL
                               ELSE ConvertLoop(expression, inputBase, outputBase, j,
                                                result \o converted.str)
             ELSE IF is_operator(c) \/ isspace(c)
             THEN ConvertLoop(expression, inputBase, outputBase, i + 1, result \o <<c>>)
             ELSE NULL

convert_expression(expression, inputBase, outputBase) ==
    IF ~expression.ok \/ inputBase < 2 \/ inputBase > 36
       \/ outputBase < 2 \/ outputBase > 36
    THEN NULL
    ELSE ConvertLoop(expression.str, inputBase, outputBase, 1, <<>>)

(***************************************************************************)
(* Expression evaluator (uqbasejump.h).                                    *)
(*                                                                         *)
(* A double is modelled where the IEEE arithmetic is exact:                *)
(*   k = "q"    the fraction n/d in lowest terms, d a power of two, and    *)
(*              |n| and d below MaxMagnitude (a zero of either sign is     *)
(*              n = 0);                                                    *)
(*   k = "u"    a numeral from MaxMagnitude up to 2^53 - 1 (exact);        *)
(*   k = "big"  a numeral of 2^53 or more (strtod is monotone, so the      *)
(*              double is 2^53 or more, and finite);                       *)
(*   k = "inf"  an infinity of either sign;                                *)
(*   k = "nan"  a NaN;                                                     *)
(*   k = "unk"  any other value: the evaluation is not followed further.   *)
(***************************************************************************)
Q(n, d) == [k |-> "q", n |-> n, d |-> d, v |-> U64Zero]
Unk == [k |-> "unk", n |-> 0, d |-> 1, v |-> U64Zero]
Inf == [k |-> "inf", n |-> 0, d |-> 1, v |-> U64Zero]
NaN == [k |-> "nan", n |-> 0, d |-> 1, v |-> U64Zero]

Abs(n) == IF n < 0 THEN -n ELSE n

RECURSIVE GCD(_, _)
GCD(a, b) == IF b = 0 THEN a ELSE GCD(b, a % b)

IsPow2(d) == \E e \in 0..30 : d = 2^e

\* The double n/d (d > 0), when the model follows it.
Norm(n, d) ==
    LET g == GCD(Abs(n), d)
        rn == n \div g
        rd == d \div g
    IN  IF Abs(rn) < MaxMagnitude /\ rd < MaxMagnitude /\ IsPow2(rd)
        THEN Q(rn, rd) ELSE Unk

\* -a
DNeg(a) == IF a.k = "q" THEN Q(-a.n, a.d)
           ELSE IF a.k \in {"inf", "nan"} THEN a
           ELSE Unk
\* a + b: a NaN operand gives a NaN, an infinity and a finite value the
\* infinity; two infinities give an infinity or a NaN by their signs.
DAdd(a, b) ==
    IF a.k = "q" /\ b.k = "q" THEN Norm(a.n * b.d + b.n * a.d, a.d * b.d)
    ELSE IF a.k = "nan" \/ b.k = "nan" THEN NaN
    ELSE IF {a.k, b.k} \in {{"inf", "q"}, {"inf", "u"}, {"inf", "big"}} THEN Inf
    ELSE Unk
\* a - b
DSub(a, b) ==
    IF a.k = "q" /\ b.k = "q" THEN Norm(a.n * b.d - b.n * a.d, a.d * b.d)
    ELSE IF a.k = "nan" \/ b.k = "nan" THEN NaN
    ELSE IF {a.k, b.k} \in {{"inf", "q"}, {"inf", "u"}, {"inf", "big"}} THEN Inf
    ELSE Unk
\* a * b: an infinity times a zero is a NaN
DMul(a, b) ==
    IF a.k = "q" /\ b.k = "q" THEN Norm(a.n * b.n, a.d * b.d)
    ELSE IF a.k = "nan" \/ b.k = "nan" THEN NaN
    ELSE IF a.k = "inf" /\ b.k = "q" THEN (IF b.n = 0 THEN NaN ELSE Inf)
    ELSE IF b.k = "inf" /\ a.k = "q" THEN (IF a.n = 0 THEN NaN ELSE Inf)
    ELSE IF "inf" \in {a.k, b.k} /\ "unk" \notin {a.k, b.k} THEN Inf
    ELSE Unk
\* a / b for b # 0
DDiv(a, b) ==
    IF a.k = "q" /\ b.k = "q"
    THEN IF b.n > 0 THEN Norm(a.n * b.d, a.d * b.n)
         ELSE Norm(-(a.n * b.d), a.d * (-b.n))
    ELSE IF a.k = "nan" \/ b.k = "nan" THEN NaN
    ELSE IF a.k = "inf" /\ b.k = "inf" THEN NaN
    ELSE IF a.k = "inf" /\ b.k # "unk" THEN Inf
    ELSE IF b.k = "inf" /\ a.k # "unk" THEN Q(0, 1)
    ELSE Unk
\* fmod(a, b) for b # 0: the remainder has the sign of a; the remainder of
\* an infinity is a NaN, the remainder by an infinity is a.
DFmod(a, b) ==
    IF a.k = "q" /\ b.k = "q"
    THEN LET x == a.n * b.d
             y == Abs(b.n) * a.d
             r == Abs(x) % y
         IN  Norm(IF x < 0 THEN -r ELSE r, a.d * b.d)
    ELSE IF a.k = "nan" \/ b.k = "nan" THEN NaN
    ELSE IF a.k = "inf" /\ b.k # "unk" THEN NaN
    ELSE IF b.k = "inf" /\ a.k # "unk" THEN a
    ELSE Unk
\* pow(a, b), followed for a whole exponent 0 <= b <= 16, for a zero raised
\* to a negative exponent (an infinity) and for a negative value raised to
\* an exponent that is no whole number (a NaN)
RECURSIVE DPowNat(_, _)
DPowNat(a, e) == IF e = 0 THEN Q(1, 1)
                 ELSE LET r == DPowNat(a, e - 1)
                      IN  IF r.k = "q" THEN DMul(r, a) ELSE Unk
DPow(a, b) ==
    IF a.k = "q" /\ b.k = "q" /\ b.d = 1 /\ b.n >= 0 /\ b.n <= 16
    THEN DPowNat(a, b.n)
    ELSE IF a.k = "q" /\ b.k = "q" /\ a.n = 0 /\ b.n < 0 THEN Inf
    ELSE IF a.k = "q" /\ b.k = "q" /\ a.n < 0 /\ b.d > 1 THEN NaN
    ELSE Unk
\* right == 0
DIsZero(a) == a.k = "q" /\ a.n = 0

\* The double strtod reads from a run of decimal digits.
DOfDigits(digits) ==
    LET v == ParseLoop(digits, 10).value
    IN  IF v[2] = 0 /\ v[3] = 0 /\ v[4] = 0 /\ v[1] < MaxMagnitude THEN Q(v[1], 1)
        ELSE IF U64Below2Pow53(v) THEN [k |-> "u", n |-> 0, d |-> 1, v |-> v]
        ELSE [k |-> "big", n |-> 0, d |-> 1, v |-> U64Zero]

PFail(i) == [ok |-> FALSE, val |-> Unk, i |-> i]
POk(val, i) == [ok |-> TRUE, val |-> val, i |-> i]
\* **expr, with "" for the terminating NUL
At(s, i) == IF i <= Len(s) THEN s[i] ELSE ""

skip_whitespace(s, i) ==
    LET stops == {k \in i..Len(s) : ~isspace(s[k])}
    IN  IF stops = {} THEN Len(s) + 1
        ELSE CHOOSE k \in stops : \A m \in stops : k <= m

\* strtod(*expr, &end) on the text convert_expression writes in base 10
\* (decimal digits, operators, parentheses, white space): white space, an
\* optional sign, then a run of decimal digits; ok = FALSE is end == *expr.
Strtod(s, i) ==
    LET j == skip_whitespace(s, i)
        signed == At(s, j) \in {"+", "-"}
        start == IF signed THEN j + 1 ELSE j
        end == NumeralEnd(s, 10, start)
    IN  IF end = start \/ ~isdigit(At(s, start)) THEN PFail(i)
        ELSE LET x == DOfDigits(SubSeq(s, start, end - 1))
             IN  POk(IF At(s, j) = "-" THEN DNeg(x) ELSE x, end)

parse_number(s, i) ==
    LET j == skip_whitespace(s, i)
    IN  IF At(s, j) = "" THEN PFail(j) ELSE Strtod(s, j)

RECURSIVE parse_expression(_, _)
RECURSIVE parse_power(_, _)
RECURSIVE parse_term_loop(_, _)
RECURSIVE parse_expression_loop(_, _)

\* parse_power after the parenthesised expression e: the closing parenthesis.
parse_power_close(s, e) ==
    LET j == skip_whitespace(s, e.i)
    IN  IF ~e.ok THEN e
        ELSE IF At(s, j) # ")" THEN PFail(j)
        ELSE POk(e.val, j + 1)

\* parse_power after its exponent.
parse_power_exponent(base, exponent) ==
    IF ~exponent.ok THEN exponent
    ELSE POk(DPow(base.val, exponent.val), exponent.i)

\* parse_power reading a number as its exponent.
parse_power_tail_number(s, base) ==
    LET j == skip_whitespace(s, base.i)
    IN  IF ~base.ok THEN base
        ELSE IF At(s, j) = "^" THEN parse_power_exponent(base, parse_number(s, j + 1))
        ELSE POk(base.val, j)

\* parse_power after its base.
parse_power_tail(s, base) ==
    LET j == skip_whitespace(s, base.i)
    IN  IF ~base.ok THEN base
        ELSE IF At(s, j) = "^" THEN parse_power_exponent(base, parse_power(s, j + 1))
        ELSE POk(base.val, j)

\* The base of parse_power: a parenthesised expression or a number.
parse_power_base(s, i) ==
    IF At(s, i) = "(" THEN parse_power_close(s, parse_expression(s, i + 1))
    ELSE parse_number(s, i)

parse_power(s, i0) == parse_power_tail(s, parse_power_base(s, skip_whitespace(s, i0)))

\* parse_factor after the power p that follows its sign.
parse_factor_sign(negative, p) ==
    IF ~p.ok THEN p
    ELSE IF negative THEN POk(DNeg(p.val), p.i) ELSE p

\* parse_factor from the position i past the white space.
parse_factor_at(s, i) ==
    parse_factor_sign(At(s, i) = "-",
                      parse_power(s, IF At(s, i) \in {"-", "+"} THEN i + 1 ELSE i))

parse_factor(s, i0) == parse_factor_at(s, skip_whitespace(s, i0))

\* parse_term keeping the whole part of every quotient.
parse_term_apply_truncating(op, result, right) ==
    IF op = "*" THEN DMul(result, right)
    ELSE IF op = "/"
    THEN LET q == DDiv(result, right)
         IN  IF q.k = "q" THEN Q(IF q.n < 0 THEN -((-q.n) \div q.d) ELSE q.n \div q.d, 1)
             ELSE q
    ELSE DFmod(result, right)

\* result *= right, result /= right, result = fmod(result, right)
parse_term_apply(op, result, right) ==
    IF op = "*" THEN DMul(result, right)
    ELSE IF op = "/" THEN DDiv(result, right)
    ELSE DFmod(result, right)

\* parse_term taking 0 for a division or a remainder by zero.
parse_term_step_zero(s, st, op, right) ==
    IF ~right.ok THEN right
    ELSE IF op # "*" /\ DIsZero(right.val) THEN parse_term_loop(s, POk(Q(0, 1), right.i))
    ELSE parse_term_loop(s, POk(parse_term_apply(op, st.val, right.val), right.i))

\* One turn of the while (1) loop of parse_term after its right operand.
parse_term_step(s, st, op, right) ==
    IF ~right.ok THEN right
    ELSE IF op # "*" /\ DIsZero(right.val) THEN PFail(right.i)
    ELSE parse_term_loop(s, POk(parse_term_apply(op, st.val, right.val), right.i))

\* The while (1) loop of parse_term at the operator op at position i.
parse_term_at(s, st, i, op) ==
    IF op \notin {"*", "/", "%"} THEN POk(st.val, i)
    ELSE parse_term_step(s, st, op, parse_factor(s, i + 1))

\* The while (1) loop of parse_term, from the state (result, position) in st.
parse_term_loop(s, st) ==
    LET i == skip_whitespace(s, st.i)
    IN  parse_term_at(s, st, i, At(s, i))

\* parse_term after its first factor.
parse_term_first(s, f) == IF ~f.ok THEN f ELSE parse_term_loop(s, f)

parse_term(s, i) == parse_term_first(s, parse_factor(s, i))

\* One turn of the while (1) loop of parse_expression after its right operand.
parse_expression_step(s, st, op, right) ==
    IF ~right.ok THEN right
    ELSE parse_expression_loop(s,
             POk(IF op = "+" THEN DAdd(st.val, right.val)
                 ELSE DSub(st.val, right.val), right.i))

\* The while (1) loop of parse_expression at the operator op at position i.
parse_expression_at(s, st, i, op) ==
    IF op \notin {"+", "-"} THEN POk(st.val, i)
    ELSE parse_expression_step(s, st, op, parse_term(s, i + 1))

\* The while (1) loop of parse_expression.
parse_expression_loop(s, st) ==
    LET i == skip_whitespace(s, st.i)
    IN  parse_expression_at(s, st, i, At(s, i))

\* parse_expression after its first term.
parse_expression_first(s, t) == IF ~t.ok THEN t ELSE parse_expression_loop(s, t)

parse_expression(s, i) == parse_expression_first(s, parse_term(s, i))

\* st = "ok": returns 0 and stores result; st = "fail": returns 1;
\* st = "nan": returns 0 and stores the conversion of a NaN to unsigned long
\* long, which is undefined (see Stored);
\* st = "unk": the evaluation leaves the values the model follows.
EvalFail == [st |-> "fail", result |-> U64Zero]
\* evaluate_expression accepting what follows the expression parsed.
evaluate_expression_result_prefix(text, p) ==
    IF ~p.ok THEN EvalFail
    ELSE IF p.val.k = "unk" THEN [st |-> "unk", result |-> U64Zero]
    ELSE IF p.val.k = "nan" THEN [st |-> "nan", result |-> U64Zero]
    ELSE IF p.val.k \in {"big", "inf"} THEN EvalFail
    ELSE IF p.val.k = "u" THEN [st |-> "ok", result |-> p.val.v]
    ELSE IF p.val.n < 0 THEN EvalFail
    ELSE [st |-> "ok", result |-> U64(p.val.n \div p.val.d)]

\* evaluate_expression after the parse p of the text.
evaluate_expression_result(text, p) ==
    IF ~p.ok THEN EvalFail
    ELSE IF skip_whitespace(text, p.i) <= Len(text) THEN EvalFail
    ELSE IF p.val.k = "unk" THEN [st |-> "unk", result |-> U64Zero]
    ELSE IF p.val.k = "nan" THEN [st |-> "nan", result |-> U64Zero]
    ELSE IF p.val.k \in {"big", "inf"} THEN EvalFail
    ELSE IF p.val.k = "u" THEN [st |-> "ok", result |-> p.val.v]
    ELSE IF p.val.n < 0 THEN EvalFail
    ELSE [st |-> "ok", result |-> U64(p.val.n \div p.val.d)]

evaluate_expression(expression) ==
    IF ~expression.ok THEN EvalFail
    ELSE evaluate_expression_result(expression.str, parse_expression(expression.str, 1))

\* What a call that ended as r can have returned and stored: the conversion
\* of a NaN stores 2^63 (cvttsd2si on x86-64) or 0 (fcvtzu on AArch64).
Stored(r) ==
    IF r.st = "nan"
    THEN {[st |-> "ok", result |-> v] : v \in {U64Zero, <<0, 0, 0, 32768>>}}
    ELSE {r}

(***************************************************************************)
(* Helpers of uqbasejump.c.                                                *)
(***************************************************************************)
\* in_range without the upper limit.
in_range_lower_only(base) == base >= MIN_BASE

in_range(base) == base >= MIN_BASE /\ base <= MAX_BASE

digits_only(s) == \A p \in DOMAIN s : isdigit(s[p])

is_in_base_range(c, base) ==
    IF isdigit(c) THEN char_to_digit(c) < base
    ELSE IF isalpha(c) THEN (IndexOf(UpperChars, toupper(c)) - 1) + DECIMAL < base
    ELSE FALSE

(***************************************************************************)
(* strtol(text, NULL, 10) of a digits-only text, converted to int: a long  *)
(* of 64 bits saturates at LONG_MAX, and the conversion to a 32-bit int    *)
(* keeps the low 32 bits (two's complement).                               *)
(***************************************************************************)
LONG_MAX == <<LimbBase - 1, LimbBase - 1, LimbBase - 1, (LimbBase \div 2) - 1>>

\* One digit of strtol: the value so far, and whether it left the range of long.
StrtolStep(st, c) ==
    LET r == U64MulAddFull(st.value, 10, char_to_digit(c))
    IN  [value |-> r.val,
         range |-> st.range \/ r.carry > 0 \/ r.val[4] >= LimbBase \div 2]

RECURSIVE StrtolRange(_, _, _, _)
StrtolRange(text, lo, hi, st) ==
    IF lo > hi THEN st
    ELSE IF lo = hi THEN StrtolStep(st, text[lo])
    ELSE LET mid == (lo + hi) \div 2
             left == StrtolRange(text, lo, mid, st)
         IN  IF left.range THEN left
             ELSE StrtolRange(text, mid + 1, hi, left)

Strtol(text) ==
    LET st == StrtolRange(text, 1, Len(text), [value |-> U64Zero, range |-> FALSE])
    IN  IF st.range THEN LONG_MAX ELSE st.value

\* (int) of a long
IntOfLong(v) ==
    IF v[2] >= LimbBase \div 2 THEN (v[2] - LimbBase) * LimbBase + v[1]
    ELSE v[2] * LimbBase + v[1]

StrtolInt(text) == IntOfLong(Strtol(text))

(***************************************************************************)
(* output_bases_parse: exit = TRUE is the call of                          *)
(* invalid_command_line_args(), which ends the process with status 17;     *)
(* otherwise oBases is the list the loop stored.                           *)
(***************************************************************************)
\* The tokens strtok(parsing, ",") returns: the maximal runs without a comma.
TokenStarts(s) == {k \in DOMAIN s : s[k] # "," /\ (k = 1 \/ s[k - 1] = ",")}
TokenAt(s, k) ==
    LET stops == {m \in k..Len(s) : s[m] = ","}
        end == IF stops = {} THEN Len(s) + 1
               ELSE CHOOSE m \in stops : \A n \in stops : m <= n
    IN  SubSeq(s, k, end - 1)
RECURSIVE SortedSeq(_)
SortedSeq(S) == IF S = {} THEN <<>>
                ELSE LET m == CHOOSE x \in S : \A y \in S : x <= y
                     IN  <<m>> \o SortedSeq(S \ {m})
Tokens(s) == LET starts == SortedSeq(TokenStarts(s))
             IN  [k \in DOMAIN starts |-> TokenAt(s, starts[k])]

output_bases_parse(basesOfOutput) ==
    LET n == Len(basesOfOutput)
        tokens == Tokens(basesOfOutput)
        base(k) == StrtolInt(tokens[k])
        \* the token at which the while loop calls invalid_command_line_args():
        \* seen[] holds the bases of the tokens before it, oBasesCount their number
        rejected(k) == \/ ~digits_only(tokens[k])
                       \/ ~in_range(base(k))
                       \/ \E j \in 1..(k - 1) : base(j) = base(k)
                       \/ k - 1 >= MAX_BASE
    IN  IF n = 0 \/ basesOfOutput[n] = "," \/ basesOfOutput[1] = ","
        THEN [exit |-> TRUE, oBases |-> <<>>]
        ELSE IF \E i \in 2..n : basesOfOutput[i] = "," /\ basesOfOutput[i - 1] = ","
        THEN [exit |-> TRUE, oBases |-> <<>>]
        ELSE IF \E k \in DOMAIN tokens : rejected(k)
        THEN [exit |-> TRUE, oBases |-> <<>>]
        ELSE [exit |-> FALSE, oBases |-> [k \in DOMAIN tokens |-> base(k)]]

(***************************************************************************)
(* The growable Expression Buffer.                                         *)
(***************************************************************************)
RECURSIVE GrowCapacity(_, _)
GrowCapacity(newCap, needed) ==
    IF newCap < needed THEN GrowCapacity(newCap * 2, needed) ELSE newCap

\* append_string when every allocation succeeds: e is [buf, cap].
append_string(e, text) ==
    LET needed == Len(e.buf) + Len(text) + 1
        cap == IF needed > e.cap
               THEN GrowCapacity(IF e.cap = 0 THEN MAX_INPUT ELSE e.cap * 2, needed)
               ELSE e.cap
    IN  [buf |-> e.buf \o text, cap |-> cap]

append_char(e, c) == append_string(e, <<c>>)

\* handle_operators committing the Raw Token Buffer as it was typed.
handle_operators_as_typed(base, e, input) ==
    IF Len(input) > 0 THEN append_string(e, input) ELSE append_char(e, "0")

\* The Raw Token Buffer to base ten and back to the input base.
convertBackToInputBase(base, input) ==
    convert_expression(convert_any_base_to_base_ten(Str(input), base), DECIMAL, base)

\* The append both commits make: skipped when the conversion returned NULL.
append_converted(e, converted) ==
    IF converted.ok THEN append_string(e, converted.str) ELSE e

\* handle_operators: commits the Raw Token Buffer to the Expression Buffer.
handle_operators(base, e, input) ==
    IF Len(input) > 0
    THEN append_converted(e, convertBackToInputBase(base, input))
    ELSE append_char(e, "0")

(***************************************************************************)
(* The interactive session: stdrd_input_expr_evaluation.                   *)
(***************************************************************************)
VARIABLES
    pc,                        \* "getchar": in the loop; "return": the loop
                               \* returned at end of input; "exit": exit(17)
    ch,                        \* the key getchar() returned last ("" before)
    inputBase,                 \* cfg->inputBase
    oBases,                    \* cfg->oBases[0 .. oBasesCount-1]
    history,                   \* cfg->history[0 .. historyCount-1]
    inputBuffer,               \* the Raw Token Buffer
    expressionBuffer,          \* the Expression Buffer
    expressionBufferCapacity,  \* its allocated size (0: not allocated)
    commandBuffer,             \* the Command Buffer
    command,                   \* the command-mode flag
    justDisplayedResult,       \* the PostResult flag
    given,                     \* outside a session: the arguments of the
                               \* function called, or the lines of the file
    produced                   \* outside a session: what the function
                               \* returned, or what file mode has reported

vars == <<pc, ch, inputBase, oBases, history, inputBuffer, expressionBuffer,
          expressionBufferCapacity, commandBuffer, command, justDisplayedResult,
          given, produced>>

cfgVars == <<inputBase, oBases, history>>
exprVars == <<expressionBuffer, expressionBufferCapacity>>
cmdVars == <<commandBuffer, command>>

(***************************************************************************)
(* The keys the exploration presses.                                       *)
(***************************************************************************)
DigitKeys == {"0", "1", "f"}
OperatorKeys == {"+", "-", "*", "/"}
\* keys that are no digit of any base the sessions reach, and no action key
OtherKeys == {"Z", "%"}
NormalKeys == DigitKeys \cup OperatorKeys \cup OtherKeys \cup {ENTER, ESC, BACK_SPACE, ":"}
\* the key that fills a Raw Token Buffer up to its capacity
Filler == "1"

LongLengths == {17, 21, MAX_INPUT}

\* The command texts typed in Command state (without the colon and the Enter).
CommandLines == {
    <<>>,
    <<"i">>, <<"i", "1", "6">>, <<"i", "2">>, <<"i", "1">>, <<"i", "3", "7">>, <<"i", "1", "x">>,
    <<"i", "4", "2", "9", "4", "9", "6", "7", "2", "9", "8">>,
    <<"o">>, <<"o", "1", "6", ",", "2">>, <<"o", "2", ",", "2">>, <<"o", ",", "2">>,
    <<"o", "2", ",">>, <<"o", "9", "9">>, <<"o", "X">>, <<"o", "2", ",", ",", "3">>,
    <<"o", "1", "6", ",", "4", "2", "9", "4", "9", "6", "7", "2", "9", "8">>,
    <<"h">>, <<"h", "h">>, <<"x", "1">>,
    <<":", ESC, BACK_SPACE, "+">>,
    [k \in 1..(MAX_CMD_INPUT - 1) |-> "h"], [k \in 1..MAX_CMD_INPUT |-> "h"] }

IsPrefix(a, b) == Len(a) <= Len(b) /\ SubSeq(b, 1, Len(a)) = a
AllFiller(s) == \A i \in DOMAIN s : s[i] = Filler

RECURSIVE HistTextUpTo(_, _)
HistTextUpTo(h, n) == IF n = 0 THEN 0
                      ELSE HistTextUpTo(h, n - 1) + Len(h[n].expression)
\* The text a session holds.
HistText == HistTextUpTo(history, Len(history))
TextSize == Len(inputBuffer) + Len(expressionBuffer) + HistText

(***************************************************************************)
(* The handlers, as functions of the state they read.                      *)
(***************************************************************************)
\* add_history recording base ten whatever the input base.
add_history_base_ten(hist, expression, base, result) ==
    Append(hist, [expression |-> expression, base |-> DECIMAL, result |-> result])

\* add_history keeping the newest entry only.
add_history_newest_only(hist, expression, base, result) ==
    <<[expression |-> expression, base |-> base, result |-> result]>>

add_history(hist, expression, base, result) ==
    Append(hist, [expression |-> expression, base |-> base, result |-> result])

\* handle_character_input without the test of the character against the base.
handle_character_input_any(c, base, input) ==
    IF Len(input) < MAX_INPUT THEN Append(input, c) ELSE input

\* handle_character_input comparing the length with <= in place of <.
handle_character_input_one_more(c, base, input) ==
    IF is_in_base_range(c, base) /\ Len(input) <= MAX_INPUT
    THEN Append(input, c)
    ELSE input

handle_character_input(c, base, input) ==
    IF is_in_base_range(c, base) /\ Len(input) < MAX_INPUT
    THEN Append(input, c)
    ELSE input

\* handle_input_base_command changing the base without clearing the
\* Expression Buffer.
handle_input_base_command_keeping(cmd, base, input, expr) ==
    LET unchanged == [inputBase |-> base, inputBuffer |-> input, expressionBuffer |-> expr]
    IN  IF Len(cmd) > 1 /\ digits_only(Tail(cmd)) /\ in_range(StrtolInt(Tail(cmd)))
        THEN [inputBase |-> StrtolInt(Tail(cmd)), inputBuffer |-> <<>>,
              expressionBuffer |-> expr]
        ELSE unchanged

\* handle_input_base_command changing the base without clearing the Raw Token
\* Buffer.
handle_input_base_command_keeping_token(cmd, base, input, expr) ==
    IF Len(cmd) > 1 /\ digits_only(Tail(cmd)) /\ in_range(StrtolInt(Tail(cmd)))
    THEN [inputBase |-> StrtolInt(Tail(cmd)), inputBuffer |-> input,
          expressionBuffer |-> <<>>]
    ELSE [inputBase |-> base, inputBuffer |-> input, expressionBuffer |-> expr]

\* handle_input_base_command: the input base and the two buffers afterwards.
handle_input_base_command(cmd, base, input, expr) ==
    LET unchanged == [inputBase |-> base, inputBuffer |-> input, expressionBuffer |-> expr]
    IN  IF Len(cmd) > 1 /\ digits_only(Tail(cmd))
        THEN LET newBase == StrtolInt(Tail(cmd))
             IN  IF in_range(newBase)
                 THEN [inputBase |-> newBase, inputBuffer |-> <<>>,
                       expressionBuffer |-> <<>>]
                 ELSE unchanged
        ELSE unchanged

\* handle_output_base_command: exit = TRUE when output_bases_parse ends the
\* process; otherwise the output bases and the two buffers afterwards.
\* handle_output_base_command storing the parsed bases in ascending order.
handle_output_base_parsed_sorted(tmpCfg, bases, input, expr) ==
    IF tmpCfg.exit
    THEN [exit |-> TRUE, oBases |-> bases, inputBuffer |-> input,
          expressionBuffer |-> expr]
    ELSE [exit |-> FALSE,
          oBases |-> SortedSeq({tmpCfg.oBases[k] : k \in DOMAIN tmpCfg.oBases}),
          inputBuffer |-> <<>>, expressionBuffer |-> <<>>]

handle_output_base_parsed(tmpCfg, bases, input, expr) ==
    IF tmpCfg.exit
    THEN [exit |-> TRUE, oBases |-> bases, inputBuffer |-> input,
          expressionBuffer |-> expr]
    ELSE [exit |-> FALSE, oBases |-> tmpCfg.oBases, inputBuffer |-> <<>>,
          expressionBuffer |-> <<>>]

handle_output_base_command(cmd, bases, input, expr) ==
    IF Len(cmd) > 1
    THEN handle_output_base_parsed(output_bases_parse(Tail(cmd)), bases, input, expr)
    ELSE [exit |-> FALSE, oBases |-> bases, inputBuffer |-> input,
          expressionBuffer |-> expr]

\* handle_special_keys whose Escape clears the Raw Token Buffer only.
handle_special_keys_escape_token_only(c, input, expr) ==
    IF c = ESC THEN [inputBuffer |-> <<>>, expressionBuffer |-> expr]
    ELSE IF c = BACK_SPACE
    THEN [inputBuffer |-> IF Len(input) > 0 THEN SubSeq(input, 1, Len(input) - 1)
                          ELSE input,
          expressionBuffer |-> expr]
    ELSE [inputBuffer |-> input, expressionBuffer |-> expr]

\* handle_special_keys whose Backspace goes on into the Expression Buffer
\* when the Raw Token Buffer is empty.
handle_special_keys_backspace_undoing(c, input, expr) ==
    IF c = ESC THEN [inputBuffer |-> <<>>, expressionBuffer |-> <<>>]
    ELSE IF c = BACK_SPACE
    THEN IF Len(input) > 0
         THEN [inputBuffer |-> SubSeq(input, 1, Len(input) - 1), expressionBuffer |-> expr]
         ELSE [inputBuffer |-> input,
               expressionBuffer |-> IF Len(expr) > 0 THEN SubSeq(expr, 1, Len(expr) - 1)
                                    ELSE expr]
    ELSE [inputBuffer |-> input, expressionBuffer |-> expr]

\* handle_special_keys: the two buffers afterwards.
handle_special_keys(c, input, expr) ==
    IF c = ESC THEN [inputBuffer |-> <<>>, expressionBuffer |-> <<>>]
    ELSE IF c = BACK_SPACE
    THEN [inputBuffer |-> IF Len(input) > 0 THEN SubSeq(input, 1, Len(input) - 1)
                          ELSE input,
          expressionBuffer |-> expr]
    ELSE [inputBuffer |-> input, expressionBuffer |-> expr]

\* handle_operator_input: the Expression Buffer [buf, cap] afterwards.
handle_operator_input(c, base, e, input) ==
    append_char(handle_operators(base, e, input), c)

\* handle_enter_key without its literal "0" for two empty buffers.
EnterCommitNoZero(e, input) == e

\* The Expression Buffer handle_enter_key hands to the evaluation.
EnterCommitZero(e, input) ==
    IF Len(input) = 0 /\ Len(e.buf) = 0 THEN append_char(e, "0") ELSE e

EnterCommit(base, e, input) ==
    EnterCommitZero(IF Len(input) > 0
                    THEN append_converted(e, convertBackToInputBase(base, input))
                    ELSE e,
                    input)

\* The outcome of the evaluation of a committed Expression Buffer.
Evaluation(base, buf) ==
    evaluate_expression(convert_expression(Str(buf), base, DECIMAL))

\* evaluate_and_display_result once the expression is in base ten: the history
\* and the Expression Buffer afterwards, and st, the way the evaluation ended.
evaluate_and_display_evaluated(base, hist, e, evaluation) ==
    IF evaluation.st # "ok"
    THEN [history |-> hist, e |-> [buf |-> <<>>, cap |-> e.cap], st |-> evaluation.st]
    ELSE [history |-> add_history(hist, e.buf, base, evaluation.result),
          e |-> [buf |-> <<>>, cap |-> e.cap], st |-> "ok"]

evaluate_and_display_converted(base, hist, e, expressionInBaseTen) ==
    IF expressionInBaseTen.ok
    THEN evaluate_and_display_evaluated(base, hist, e,
                                        evaluate_expression(expressionInBaseTen))
    ELSE [history |-> hist, e |-> [buf |-> <<>>, cap |-> e.cap], st |-> "fail"]

\* evaluate_and_display_result leaving the Expression Buffer as it is when the
\* evaluation fails.
KeptOnFailure(e, r) == IF r.st = "ok" THEN r ELSE [r EXCEPT !.e = e]

evaluate_and_display_result_keeping(base, hist, e) ==
    KeptOnFailure(e, evaluate_and_display_converted(base, hist, e,
                         convert_expression(Str(e.buf), base, DECIMAL)))

evaluate_and_display_result(base, hist, e) ==
    evaluate_and_display_converted(base, hist, e,
                                   convert_expression(Str(e.buf), base, DECIMAL))

\* handle_enter_key: the history, the buffers and the PostResult flag
\* afterwards; committed is the expression it evaluated and st the way the
\* evaluation ended ("none": nothing to evaluate).
handle_enter_key_evaluate(base, hist, committed) ==
    IF Len(committed.buf) > 0
    THEN evaluate_and_display_result(base, hist, committed)
    ELSE [history |-> hist, e |-> committed, st |-> "none"]

handle_enter_key_result(r, committed) ==
    [history |-> r.history, e |-> r.e, inputBuffer |-> <<>>,
     justDisplayedResult |-> TRUE, st |-> r.st, committed |-> committed.buf]

handle_enter_key_committed(base, hist, committed) ==
    handle_enter_key_result(handle_enter_key_evaluate(base, hist, committed), committed)

handle_enter_key(base, hist, e, input) ==
    handle_enter_key_committed(base, hist, EnterCommit(base, e, input))

\* handle_just_displayed_result leaving the flag set on an invalid key.
handle_just_displayed_result_kept_on_invalid(c, base, flag) ==
    IF flag
    THEN c \notin {":", ESC, BACK_SPACE, ENTER, "+", "-", "*", "/"}
         /\ ~is_in_base_range(c, base)
    ELSE flag

\* handle_just_displayed_result leaving the flag set on a key that is
\* processed normally.
handle_just_displayed_result_kept_on_action(c, base, flag) ==
    IF flag
    THEN c \in {":", ESC, BACK_SPACE, ENTER, "+", "-", "*", "/"}
         \/ is_in_base_range(c, base)
    ELSE flag

\* handle_just_displayed_result: the PostResult flag afterwards.  The flag is
\* cleared on both paths, so the loop never takes its continue.
handle_just_displayed_result(c, base, flag) ==
    LET isAction == c \in {":", ESC, BACK_SPACE, ENTER, "+", "-", "*", "/"}
        isValidInput == is_in_base_range(c, base)
    IN  IF flag THEN (IF ~isAction /\ ~isValidInput THEN FALSE ELSE FALSE)
        ELSE flag

(***************************************************************************)
(* The keystrokes the exploration follows.                                 *)
(***************************************************************************)
\* Tokens longer than MaxTok are runs of Filler typed into an empty session;
\* they are committed at the lengths of LongLengths only.  Before the first
\* history entry a second pair of MaxText + 1 characters in all is committed
\* too.  Once the Expression Buffer has been reallocated the session is
\* followed to its next Enter or Escape and no further.
ShortToken == Len(inputBuffer) <= MaxTok

Regrown == expressionBufferCapacity > MAX_INPUT

CommitLength == ShortToken \/ Len(inputBuffer) \in LongLengths

ExploredCharacter(c) ==
    /\ ~Regrown
    /\ \/ ~is_in_base_range(c, inputBase) /\ ShortToken
       \/ Len(inputBuffer) >= MAX_INPUT /\ c = Filler
       \/ Len(inputBuffer) < MaxTok /\ TextSize < MaxText
       \/ c = Filler /\ AllFiller(inputBuffer) /\ expressionBuffer = <<>>
                     /\ history = <<>>

\* e: the Expression Buffer the operator key leaves.
ExploredOperator(e) ==
    /\ ~Regrown
    /\ CommitLength
    /\ \/ expressionBuffer = <<>> /\ history = <<>>
       \/ history = <<>> /\ Len(e.buf) <= MaxText + 1
       \/ HistText + Len(e.buf) <= MaxText

\* r: what handle_enter_key leaves.
ExploredEnter(r) ==
    /\ CommitLength
    /\ Regrown => expressionBuffer # <<>>
    /\ r.st \notin {"unk", "nan"}
    /\ \/ r.st = "fail"
       \/ history = <<>>
       \/ HistText + Len(r.committed) <= MaxText

ExploredSpecial(c) ==
    \/ c = ESC
    \/ ~Regrown /\ (ShortToken \/ Len(inputBuffer) = MAX_INPUT)

ExploredColon == ~Regrown /\ TextSize <= MaxCmdText

ExploredCommandKey(c) ==
    \E line \in CommandLines :
        /\ IsPrefix(Append(commandBuffer, c), line)
        /\ Len(line) <= MaxCmdLine \/ TextSize = 0

ExploredCommand == commandBuffer \in CommandLines

(***************************************************************************)
(* The state machine.                                                      *)
(***************************************************************************)
Init ==
    /\ pc = "getchar"
    /\ ch = ""
    /\ inputBase = DECIMAL
    /\ oBases = <<BINARY, DECIMAL, HEX>>
    /\ history = <<>>
    /\ inputBuffer = <<>>
    /\ expressionBuffer = <<>>
    /\ expressionBufferCapacity = 0
    /\ commandBuffer = <<>>
    /\ command = FALSE
    /\ justDisplayedResult = FALSE
    /\ given = <<>>
    /\ produced = <<>>

\* getchar() returned c, and handle_just_displayed_result has run.
Read(c) ==
    /\ pc = "getchar"
    /\ ch' = c
    /\ UNCHANGED <<given, produced>>

\* EOF or EOT: the loop frees the Expression Buffer and the history and
\* returns; its local variables end there and are shown as at their start.
EndOfInput ==
    /\ pc = "getchar"
    /\ pc' = "return"
    /\ ch' = "EOF"
    /\ history' = <<>>
    /\ inputBuffer' = <<>>
    /\ expressionBuffer' = <<>>
    /\ expressionBufferCapacity' = 0
    /\ commandBuffer' = <<>>
    /\ command' = FALSE
    /\ justDisplayedResult' = FALSE
    /\ UNCHANGED <<inputBase, oBases, given, produced>>

\* Command state, any key but Enter.
CommandCharacter(c) ==
    /\ Read(c)
    /\ command
    /\ c # ENTER
    /\ ExploredCommandKey(c)
    /\ justDisplayedResult' = handle_just_displayed_result(c, inputBase, justDisplayedResult)
    /\ commandBuffer' = IF Len(commandBuffer) < MAX_CMD_INPUT - 1
                        THEN Append(commandBuffer, c)
                        ELSE commandBuffer
    /\ UNCHANGED <<pc, cfgVars, inputBuffer, exprVars, command>>

\* Command state, Enter, command letter i.
InputBaseCommand ==
    /\ Read(ENTER)
    /\ command
    /\ ExploredCommand
    /\ Len(commandBuffer) > 0 /\ commandBuffer[1] = "i"
    /\ LET r == handle_input_base_command(commandBuffer, inputBase, inputBuffer,
                                           expressionBuffer)
       IN  /\ inputBase' = r.inputBase
           /\ inputBuffer' = r.inputBuffer
           /\ expressionBuffer' = r.expressionBuffer
    /\ justDisplayedResult' = handle_just_displayed_result(ENTER, inputBase, justDisplayedResult)
    /\ command' = FALSE
    /\ commandBuffer' = <<>>
    /\ UNCHANGED <<pc, oBases, history, expressionBufferCapacity>>

\* Command state, Enter, command letter o; r is what the handler leaves, and
\* the process has ended when output_bases_parse called exit.
OutputBaseStep(r) ==
    /\ oBases' = r.oBases
    /\ inputBuffer' = r.inputBuffer
    /\ expressionBuffer' = r.expressionBuffer
    /\ IF r.exit
       THEN pc' = "exit" /\ UNCHANGED cmdVars
       ELSE pc' = pc /\ command' = FALSE /\ commandBuffer' = <<>>

OutputBaseCommand ==
    /\ Read(ENTER)
    /\ command
    /\ ExploredCommand
    /\ Len(commandBuffer) > 0 /\ commandBuffer[1] = "o"
    /\ justDisplayedResult' = handle_just_displayed_result(ENTER, inputBase, justDisplayedResult)
    /\ OutputBaseStep(handle_output_base_command(commandBuffer, oBases, inputBuffer,
                                                 expressionBuffer))
    /\ UNCHANGED <<inputBase, history, expressionBufferCapacity>>

\* The dispatch of any other command text, were it to empty the Raw Token
\* Buffer as the commands i and o do.
OtherCommandClearing ==
    /\ Read(ENTER)
    /\ command
    /\ ExploredCommand
    /\ ~(Len(commandBuffer) > 0 /\ commandBuffer[1] \in {"i", "o"})
    /\ justDisplayedResult' = handle_just_displayed_result(ENTER, inputBase, justDisplayedResult)
    /\ command' = FALSE
    /\ commandBuffer' = <<>>
    /\ inputBuffer' = <<>>
    /\ UNCHANGED <<pc, cfgVars, exprVars>>

\* Command state, Enter, any other command text (h lists the history).
OtherCommand ==
    /\ Read(ENTER)
    /\ command
    /\ ExploredCommand
    /\ ~(Len(commandBuffer) > 0 /\ commandBuffer[1] \in {"i", "o"})
    /\ justDisplayedResult' = handle_just_displayed_result(ENTER, inputBase, justDisplayedResult)
    /\ command' = FALSE
    /\ commandBuffer' = <<>>
    /\ UNCHANGED <<pc, cfgVars, inputBuffer, exprVars>>

\* Normal state, colon: handle_colon_command.
ColonKey ==
    /\ Read(":")
    /\ ~command
    /\ ExploredColon
    /\ justDisplayedResult' = handle_just_displayed_result(":", inputBase, justDisplayedResult)
    /\ command' = TRUE
    /\ commandBuffer' = <<>>
    /\ UNCHANGED <<pc, cfgVars, inputBuffer, exprVars>>

\* Normal state, Escape or Backspace: handle_special_keys.
SpecialKey(c) ==
    /\ Read(c)
    /\ ~command
    /\ c \in {ESC, BACK_SPACE}
    /\ ExploredSpecial(c)
    /\ justDisplayedResult' = handle_just_displayed_result(c, inputBase, justDisplayedResult)
    /\ LET r == handle_special_keys(c, inputBuffer, expressionBuffer)
       IN  /\ inputBuffer' = r.inputBuffer
           /\ expressionBuffer' = r.expressionBuffer
    /\ UNCHANGED <<pc, cfgVars, expressionBufferCapacity, cmdVars>>

\* Normal state, Enter: handle_enter_key; r is what the handler leaves.
EnterStep(r) ==
    /\ ExploredEnter(r)
    /\ history' = r.history
    /\ expressionBuffer' = r.e.buf
    /\ expressionBufferCapacity' = r.e.cap
    /\ inputBuffer' = r.inputBuffer
    /\ justDisplayedResult' = r.justDisplayedResult

EnterKey ==
    /\ Read(ENTER)
    /\ ~command
    /\ EnterStep(handle_enter_key(inputBase, history,
                     [buf |-> expressionBuffer, cap |-> expressionBufferCapacity],
                     inputBuffer))
    /\ UNCHANGED <<pc, inputBase, oBases, cmdVars>>

\* Normal state, one of + - * /: handle_operator_input; e is the Expression
\* Buffer the handler leaves.
OperatorStep(e) ==
    /\ ExploredOperator(e)
    /\ expressionBuffer' = e.buf
    /\ expressionBufferCapacity' = e.cap

OperatorKey(c) ==
    /\ Read(c)
    /\ ~command
    /\ c \in {"+", "-", "*", "/"}
    /\ justDisplayedResult' = handle_just_displayed_result(c, inputBase, justDisplayedResult)
    /\ OperatorStep(handle_operator_input(c, inputBase,
                     [buf |-> expressionBuffer, cap |-> expressionBufferCapacity],
                     inputBuffer))
    /\ inputBuffer' = <<>>
    /\ UNCHANGED <<pc, cfgVars, cmdVars>>

\* Normal state, any other key: handle_character_input.
CharacterKey(c) ==
    /\ Read(c)
    /\ ~command
    /\ c \notin {":", ESC, BACK_SPACE, ENTER, "+", "-", "*", "/"}
    /\ ExploredCharacter(c)
    /\ justDisplayedResult' = handle_just_displayed_result(c, inputBase, justDisplayedResult)
    /\ inputBuffer' = handle_character_input(c, inputBase, inputBuffer)
    /\ UNCHANGED <<pc, cfgVars, exprVars, cmdVars>>

CommandKeys == UNION {{line[k] : k \in DOMAIN line} : line \in CommandLines}

Next ==
    \/ EndOfInput
    \/ \E c \in CommandKeys : CommandCharacter(c)
    \/ InputBaseCommand
    \/ OutputBaseCommand
    \/ OtherCommand
    \/ ColonKey
    \/ \E c \in NormalKeys : SpecialKey(c)
    \/ EnterKey
    \/ \E c \in NormalKeys : OperatorKey(c)
    \/ \E c \in NormalKeys : CharacterKey(c)

Spec == Init /\ [][Next]_vars

(***************************************************************************)
(* Calls of the numeral codec: convert_int_to_str_any_base, and             *)
(* convert_str_to_int_any_base on its result.                              *)
(***************************************************************************)
\* The session variables other than pc, which no call outside a session uses.
idleVars == <<ch, inputBuffer, expressionBuffer, expressionBufferCapacity,
              commandBuffer, command, justDisplayedResult>>

Idle ==
    /\ ch = ""
    /\ inputBuffer = <<>>
    /\ expressionBuffer = <<>>
    /\ expressionBufferCapacity = 0
    /\ commandBuffer = <<>>
    /\ command = FALSE
    /\ justDisplayedResult = FALSE

\* The configuration initialize_config leaves.
DefaultConfig ==
    /\ inputBase = DECIMAL
    /\ oBases = <<BINARY, DECIMAL, HEX>>
    /\ history = <<>>

\* The values formatted: the small ones, and values around the powers of
\* two up to 2^64 - 1.
MaxValue == 40
CodecValues ==
    {U64(n) : n \in 0..MaxValue}
    \cup {<<65535, 0, 0, 0>>, <<0, 1, 0, 0>>, <<65535, 65535, 0, 0>>, <<0, 0, 1, 0>>,
          <<65535, 65535, 65535, 31>>, <<0, 0, 0, 32>>, <<1, 0, 0, 32>>,
          <<0, 0, 0, 32768>>, <<65535, 65535, 65535, 32767>>,
          <<65534, 65535, 65535, 65535>>, <<65535, 65535, 65535, 65535>>}
CodecInit ==
    /\ pc = "call"
    \* the bases passed: 2..36 and the integers next to that range
    /\ given \in [value : CodecValues, base : 0..(MAX_BASE + 2)]
    /\ produced = <<>>
    /\ DefaultConfig
    /\ Idle

\* text = convert_int_to_str_any_base(value, base), then
\* convert_str_to_int_any_base(text, base).
FormatThenParse ==
    /\ pc = "call"
    /\ pc' = "done"
    /\ produced' = [text |-> convert_int_to_str_any_base(given.value, given.base),
                    value |-> convert_str_to_int_any_base(
                                  convert_int_to_str_any_base(given.value, given.base),
                                  given.base)]
    /\ UNCHANGED <<given, cfgVars, idleVars>>

CodecSpec == CodecInit /\ [][FormatThenParse]_vars

(***************************************************************************)
(* Calls of the transliterator: convert_expression from one base to        *)
(* another, and on its result back to the first base.                      *)
(***************************************************************************)
\* The expressions transliterated: every text of up to MaxExprLen characters
\* of TranslitChars, and two numerals that reach 2^64 in the bases below 16
\* and above.
MaxExprLen == 3
TranslitChars == {"0", "1", "9", "f", "+", "^", "(", " ", "?"}
TranslitTexts ==
    UNION {[1..n -> TranslitChars] : n \in 0..MaxExprLen}
    \cup {[k \in 1..17 |-> "1"], [k \in 1..65 |-> "1"]}
TranslitBases == {BINARY, DECIMAL, HEX, MAX_BASE}

TranslitInit ==
    /\ pc = "call"
    /\ given \in [expression : TranslitTexts, inputBase : TranslitBases,
                   outputBase : TranslitBases]
    /\ produced = <<>>
    /\ DefaultConfig
    /\ Idle

\* convert_expression(expression, inputBase, outputBase)
Transliterate ==
    /\ pc = "call"
    /\ pc' = "there"
    /\ produced' = <<convert_expression(Str(given.expression), given.inputBase,
                                        given.outputBase)>>
    /\ UNCHANGED <<given, cfgVars, idleVars>>

\* convert_expression(that result, outputBase, inputBase)
TransliterateBack ==
    /\ pc = "there"
    /\ pc' = "back"
    /\ produced' = Append(produced,
                          convert_expression(produced[1], given.outputBase,
                                             given.inputBase))
    /\ UNCHANGED <<given, cfgVars, idleVars>>

TranslitSpec == TranslitInit /\ [][Transliterate \/ TransliterateBack]_vars

(***************************************************************************)
(* Calls of the evaluator: evaluate_expression on a text of decimal        *)
(* numerals, operators, parentheses and white space.                       *)
(***************************************************************************)
\* The texts evaluated: every text of up to MaxEvalLen characters of the
\* digits 0 2 3, the operators, the parentheses and the blank, a sign before two operands, three operands, and longer texts.
MaxEvalLen == 3
EvalOperands == {"0", "2", "3", "8"}
EvalOperators == {"+", "-", "*", "/", "%", "^"}
EvalTexts ==
    UNION {[1..n -> {"0", "2", "3", "+", "-", "*", "/", "%", "^", "(", ")", " "}] :
               n \in 0..MaxEvalLen}
    \cup {<<s, a, op, b>> : s \in {"-", "+"}, a \in EvalOperands,
                            op \in EvalOperators, b \in EvalOperands}
    \cup {<<a, op1, b, op2, c>> : a \in EvalOperands, op1 \in EvalOperators,
                                  b \in EvalOperands, op2 \in EvalOperators,
                                  c \in EvalOperands}
    \cup {
     <<"-", "1">>,
     <<"7", " ", "/", " ", "2">>, <<"7", " ", "/", " ", "2", " ", "*", " ", "2">>,
     <<"1", " ", "/", " ", "2", " ", "+", " ", "1", " ", "/", " ", "2">>,
     <<"2", " ", "+", " ", "3", " ", "*", " ", "4">>,
     <<"(", "2", " ", "+", " ", "3", ")", " ", "*", " ", "4">>,
     <<"2", " ", "^", " ", "3", " ", "^", " ", "2">>,
     <<"-", "2", "^", "2">>,
     <<"5", " ", "/", " ", "0">>,
     <<"5", " ", "%", " ", "(", "3", " ", "-", " ", "3", ")">>,
     <<"0", " ", "/", " ", "0">>,
     <<"6", "/", "0", "-", "2">>,
     <<"3", " ", "-", " ", "5">>,
     <<"3", " ", "-", " ", "5", " ", "+", " ", "4">>,
     <<"9", "0", "0", "7", "1", "9", "9", "2", "5", "4", "7", "4", "0", "9", "9", "1">>,
     <<"9", "0", "0", "7", "1", "9", "9", "2", "5", "4", "7", "4", "0", "9", "9", "2">>,
     <<"9", "0", "0", "7", "1", "9", "9", "2", "5", "4", "7", "4", "0", "9", "9", "1", "+", "1">>,
     <<"0", "*", "0", "^", "-", "1">>,
     <<"(", "-", "2", ")", "^", "(", "2", "/", "4", ")">>,
     <<"1", "/", "(", "2", "-", "2", ")">>,
     <<"(", "2", "+", "3">>,
     <<"2", "+", "3", ")">>,
     <<"2", " ", "3", "+">>,
     <<" ", " ", "2", " ", " ">>,
     <<" ", " ", " ", " ">>}

EvalInit ==
    /\ pc = "call"
    /\ given \in EvalTexts
    /\ produced = <<>>
    /\ DefaultConfig
    /\ Idle

\* evaluate_expression(expression, &result)
Evaluate ==
    /\ pc = "call"
    /\ pc' = "done"
    /\ produced' \in Stored(evaluate_expression(Str(given)))
    /\ UNCHANGED <<given, cfgVars, idleVars>>

EvalSpec == EvalInit /\ [][Evaluate]_vars

(***************************************************************************)
(* File mode: the getline loop of main and file_expr_evaluation_display.   *)
(* given holds the lines getline returns, produced one report for each     *)
(* line read.                                                              *)
(***************************************************************************)
RECURSIVE remove_trailings(_)
remove_trailings(s) ==
    IF s # <<>> /\ s[Len(s)] \in {"\n", "\r"}
    THEN remove_trailings(SubSeq(s, 1, Len(s) - 1))
    ELSE s

\* What file_expr_evaluation_display writes: failed is the message "Cannot
\* evaluate the expression" on stderr; otherwise the expression and its base,
\* the result in that base, and the result in each output base.
FileReport(failed, expression, base, result, outputs) ==
    [failed |-> failed, expression |-> expression, base |-> base,
     result |-> result, outputs |-> outputs]

\* file_expr_evaluation_display after evaluate_expression ended as evaluation.
file_expr_evaluation_display_evaluated(expression, base, bases, evaluation) ==
    LET \* output ? output : "0"
        OrZero(output) == IF output.ok THEN output.str ELSE <<"0">>
    IN
    IF evaluation.st # "ok"
    THEN FileReport(TRUE, expression, 0, <<>>, <<>>)
    ELSE FileReport(FALSE, expression, base,
                    OrZero(convert_int_to_str_any_base(evaluation.result, base)),
                    [i \in 1..Len(bases) |->
                        [base |-> bases[i],
                         text |-> OrZero(convert_int_to_str_any_base(evaluation.result,
                                                                     bases[i]))]])

\* file_expr_evaluation_display reading the line in base ten.
file_expr_evaluation_display_decimal(expression, base, bases) ==
    {file_expr_evaluation_display_evaluated(expression, base, bases, evaluation) :
         evaluation \in Stored(Evaluation(DECIMAL, expression))}

\* The reports a call of file_expr_evaluation_display can write.
file_expr_evaluation_display(expression, base, bases) ==
    {file_expr_evaluation_display_evaluated(expression, base, bases, evaluation) :
         evaluation \in Stored(Evaluation(base, expression))}

\* The files read: up to MaxLines lines, each a text and its line end; only
\* the last line of a file can lack the line feed.
MaxLines == 2

FileInit ==
    /\ pc = "getline"
    /\ LET FileLines ==
               {t \o e : t \in {<<>>, <<"1", "+", "1">>, <<"f", "+", "1">>,
                                <<"1", "/", "0">>, <<"0", "*", "0", "^", "-", "1">>},
                         e \in {<<>>, <<"\n">>, <<"\r", "\n">>}} \ {<<>>}
       IN  given \in UNION {[1..n -> FileLines] : n \in 0..MaxLines}
    /\ \A k \in 1..(Len(given) - 1) : given[k][Len(given[k])] = "\n"
    /\ produced = <<>>
    /\ inputBase \in {DECIMAL, HEX}
    /\ oBases \in {<<BINARY, DECIMAL, HEX>>, <<MAX_BASE>>}
    /\ history = <<>>
    /\ Idle

\* The loop leaving at the first line that cannot be evaluated.
FileLineStopping ==
    /\ pc = "getline"
    /\ Len(produced) < Len(given)
    /\ \E report \in file_expr_evaluation_display(
                         remove_trailings(given[Len(produced) + 1]), inputBase, oBases) :
           /\ produced' = Append(produced, report)
           /\ pc' = IF report.failed THEN "return" ELSE pc
    /\ UNCHANGED <<given, cfgVars, idleVars>>

\* One turn of the while loop: getline returns the next line.
FileLine ==
    /\ pc = "getline"
    /\ Len(produced) < Len(given)
    \* a line is followed when the model follows its evaluation
    /\ Evaluation(inputBase, remove_trailings(given[Len(produced) + 1])).st # "unk"
    /\ \E report \in file_expr_evaluation_display(
                         remove_trailings(given[Len(produced) + 1]), inputBase, oBases) :
           produced' = Append(produced, report)
    /\ UNCHANGED <<pc, given, cfgVars, idleVars>>

\* getline returns -1: the message for a file without a line, and the end.
FileEnd ==
    /\ pc = "getline"
    /\ Len(produced) = Len(given)
    /\ pc' = "return"
    /\ produced' = IF given = <<>> THEN <<FileReport(TRUE, <<>>, 0, <<>>, <<>>)>>
                   ELSE produced
    /\ UNCHANGED <<given, cfgVars, idleVars>>

FileSpec == FileInit /\ [][FileLine \/ FileEnd]_vars

(***************************************************************************)
(* The appends of one operator keystroke, when an allocation may fail.     *)
(***************************************************************************)
\* The committed numerals appended have up to MaxAppend characters, or 20, or
\* the MAX_INPUT characters of the longest numeral of base 2.
MaxAppend == 3

\* append_string: e is [buf, cap, block], block telling whether the pointer
\* is NULL, designates a live block, or designates a block that was freed;
\* allocated tells whether the allocation the call makes succeeds.  The
\* outcomes are a set: once the block is freed, its bytes are whatever the
\* allocator left there ("?" for bytes that are no longer the text), and a
\* call that reallocates or writes through the pointer may abort the process
\* or go on as if the block were live.
append_string_allocating(e, text, allocated) ==
    LET needed == Len(e.buf) + Len(text) + 1
        newCap == GrowCapacity(IF e.cap = 0 THEN MAX_INPUT ELSE e.cap * 2, needed)
        appended == e.buf \o text
        scrambled == [k \in DOMAIN appended |-> "?"]
    IN  IF e.block = "freed"
        THEN {[buf |-> e.buf, cap |-> e.cap, block |-> "freed", failed |-> FALSE,
               abort |-> TRUE]}
             \cup {[buf |-> b, cap |-> IF needed > e.cap THEN newCap ELSE e.cap,
                    block |-> k, failed |-> FALSE, abort |-> FALSE] :
                       b \in {appended, scrambled}, k \in {"freed", "live"}}
        ELSE IF needed > e.cap
        THEN IF allocated
             THEN {[buf |-> appended, cap |-> newCap, block |-> "live",
                    failed |-> FALSE, abort |-> FALSE]}
             ELSE IF e.block = "null"
             THEN {[buf |-> e.buf, cap |-> e.cap, block |-> "null", failed |-> TRUE,
                    abort |-> FALSE]}
             ELSE {[buf |-> b, cap |-> e.cap, block |-> "freed", failed |-> TRUE,
                    abort |-> FALSE] :
                       b \in {e.buf, [k \in DOMAIN e.buf |-> "?"]}}
        ELSE IF e.block = "null" /\ ~allocated
        THEN {[buf |-> e.buf, cap |-> e.cap, block |-> "null", failed |-> TRUE,
               abort |-> FALSE]}
        ELSE {[buf |-> appended, cap |-> e.cap, block |-> "live", failed |-> FALSE,
               abort |-> FALSE]}

\* handle_operator_input is about to append the committed numeral (given) and
\* then the operator (ch) to the Expression Buffer; produced tells the state
\* of the buffer's block and whether the last append failed to allocate.
AppendInit ==
    LET Ones(n) == [k \in 1..n |-> "1"]
        Pending(n) == [k \in 1..n |-> IF k > 1 /\ (n - k) % 2 = 0 THEN "+" ELSE "1"]
    IN  /\ pc = "numeral"
        /\ ch \in {"+", "/"}
        /\ given \in {Ones(n) : n \in (1..MaxAppend) \cup {20, MAX_INPUT}}
        /\ \E e \in {[buf |-> <<>>, cap |-> 0, block |-> "null"]}
                    \cup {[buf |-> Pending(n), cap |-> MAX_INPUT, block |-> "live"] :
                              n \in {0, 2, MAX_INPUT - 3, MAX_INPUT - 2, MAX_INPUT - 1}}
                    \cup {[buf |-> Pending(n), cap |-> 2 * MAX_INPUT, block |-> "live"] :
                              n \in {MAX_INPUT, 2 * MAX_INPUT - 2, 2 * MAX_INPUT - 1}} :
               /\ expressionBuffer = e.buf
               /\ expressionBufferCapacity = e.cap
               /\ produced = [block |-> e.block, failed |-> FALSE]
        /\ inputBase = BINARY
        /\ oBases = <<BINARY, DECIMAL, HEX>>
        /\ history = <<>>
        /\ inputBuffer = <<>>
        /\ commandBuffer = <<>>
        /\ command = FALSE
        /\ justDisplayedResult = FALSE

\* r: what a call of append_string leaves.
AppendStep(r, after) ==
    /\ expressionBuffer' = r.buf
    /\ expressionBufferCapacity' = r.cap
    /\ produced' = [block |-> r.block, failed |-> r.failed]
    /\ pc' = IF r.abort THEN "abort" ELSE after
    /\ UNCHANGED <<ch, given, cfgVars, inputBuffer, cmdVars, justDisplayedResult>>

\* handle_operators: the append of the committed numeral.
AppendNumeral ==
    /\ pc = "numeral"
    /\ \E allocated \in BOOLEAN :
           \E r \in append_string_allocating(
                        [buf |-> expressionBuffer, cap |-> expressionBufferCapacity,
                         block |-> produced.block], given, allocated) :
               AppendStep(r, "operator")

\* handle_operator_input: the append_char of the operator that follows.
AppendOperator ==
    /\ pc = "operator"
    /\ \E allocated \in BOOLEAN :
           \E r \in append_string_allocating(
                        [buf |-> expressionBuffer, cap |-> expressionBufferCapacity,
                         block |-> produced.block], <<ch>>, allocated) :
               AppendStep(r, "display")

AppendSpec == AppendInit /\ [][AppendNumeral \/ AppendOperator]_vars

(***************************************************************************)
(* Properties of the session.                                              *)
(***************************************************************************)
Running == pc = "getchar"
NormalState == Running /\ ~command
CommandState == Running /\ command

\* The keystroke just read was Enter, dispatching a command.
DispatchOf(line) == CommandState /\ commandBuffer = line /\ ch' = ENTER

\* The base-list rules of the :o command, read off their description: the
\* fields between the commas are all non-empty, each is a decimal numeral
\* whose value is in 2..36, and no value occurs twice.
FieldStarts(s) == {1} \cup {k + 1 : k \in {j \in DOMAIN s : s[j] = ","}}
FieldAt(s, k) ==
    LET commas == {m \in k..Len(s) : s[m] = ","}
        end == IF commas = {} THEN Len(s) + 1
               ELSE CHOOSE m \in commas : \A n \in commas : m <= n
    IN  SubSeq(s, k, end - 1)
Fields(s) == {FieldAt(s, k) : k \in FieldStarts(s)}
Significant(t) ==
    LET nonzero == {k \in DOMAIN t : t[k] # "0"}
    IN  IF nonzero = {} THEN <<>>
        ELSE SubSeq(t, CHOOSE k \in nonzero : \A n \in nonzero : k <= n, Len(t))
DecimalDigit(c) == CHOOSE d \in 0..9 : DigitChars[d + 1] = c
IsBaseNumeral(t) ==
    /\ t # <<>>
    /\ \A k \in DOMAIN t : \E d \in 0..9 : DigitChars[d + 1] = t[k]
    /\ LET sig == Significant(t)
       IN  \/ Len(sig) = 1 /\ DecimalDigit(sig[1]) >= 2
           \/ Len(sig) = 2 /\ 10 * DecimalDigit(sig[1]) + DecimalDigit(sig[2]) <= 36
BaseList(body) ==
    /\ body # <<>>
    /\ \A f \in Fields(body) : IsBaseNumeral(f)
    /\ \A j, k \in FieldStarts(body) :
           j # k => Significant(FieldAt(body, j)) # Significant(FieldAt(body, k))

\* C1: the session ends only at end of input; a command dispatched with
\* Enter, malformed or not, leaves the session running in Normal state.
C1_EndsOnlyAtEndOfInput ==
    /\ ~Running => ch = "EOF"
    /\ ch = ENTER => NormalState

\* C2: a :o command whose body breaks the base-list rules leaves the output
\* bases as they were.
C2_MalformedOutputBasesIgnored ==
    [][\A line \in CommandLines :
          (/\ DispatchOf(line)
           /\ Len(line) > 0 /\ line[1] = "o"
           /\ ~BaseList(Tail(line))) => oBases' = oBases]_vars

\* The keystroke just read was Enter, in Normal state.
EnterPressed == NormalState /\ ch' = ENTER

\* What that Enter commits, and how its evaluation ends.
EnterCommitted ==
    EnterCommit(inputBase, [buf |-> expressionBuffer, cap |-> expressionBufferCapacity],
                inputBuffer).buf
EnterOutcome == Evaluation(inputBase, EnterCommitted)

\* C3: Enter in Normal state on an expression that evaluates successfully
\* appends exactly one entry (the committed text, the input base, the
\* result), empties both buffers and sets PostResult.
C3_SuccessfulEnterRecords ==
    [][EnterPressed /\ EnterOutcome.st = "ok" =>
          /\ history' = Append(history, [expression |-> EnterCommitted,
                                         base |-> inputBase,
                                         result |-> EnterOutcome.result])
          /\ inputBuffer' = <<>>
          /\ expressionBuffer' = <<>>
          /\ justDisplayedResult']_vars

\* In base 16 the token FF has been entered: one entry ("FF", 16, 255).
C3_EnteredFF ==
    /\ NormalState /\ ch = ENTER /\ justDisplayedResult
    /\ inputBase = 16
    /\ history = <<[expression |-> <<"F", "F">>, base |-> 16, result |-> U64(255)]>>
    /\ inputBuffer = <<>> /\ expressionBuffer = <<>>

C5_PostResultOnlyOnSuccess ==
    [][EnterPressed => (justDisplayedResult' <=> EnterOutcome.st = "ok")]_vars

\* C6: every keystroke leaves the history an extension of what it was; it
\* grows by one entry on a successful Enter and not at all otherwise.
C6_HistoryAppendOnly ==
    [][ch' # "EOF" =>
          /\ IsPrefix(history, history')
          /\ Len(history') = Len(history)
                 + (IF EnterPressed /\ EnterOutcome.st = "ok" THEN 1 ELSE 0)]_vars

\* Two entries recorded under different input bases.
C6_EntriesOfTwoBases ==
    /\ Running
    /\ Len(history) = 2
    /\ history[1].base = DECIMAL /\ history[2].base = HEX

\* c is a digit of the base: one of 0-9, A-Z, a-z whose value is below it.
ValidDigit(c, base) ==
    \E d \in 0..(base - 1) :
        \/ d <= 9 /\ c = DigitChars[d + 1]
        \/ d >= 10 /\ c \in {UpperChars[d - 9], LowerChars[d - 9]}

\* C7: the input base is in 2..36 and the output bases are at most 35
\* pairwise distinct integers of 2..36, in every reachable state.
C7_BasesInRange ==
    /\ inputBase \in 2..36
    /\ Len(oBases) <= 35
    /\ \A k \in DOMAIN oBases : oBases[k] \in 2..36
    /\ \A j, k \in DOMAIN oBases : j # k => oBases[j] # oBases[k]

\* Both the input base and the output bases have been changed by commands.
C7_BasesChanged ==
    /\ NormalState /\ ch = ENTER
    /\ inputBase = BINARY
    /\ oBases = <<HEX, BINARY>>

\* C8: the Raw Token Buffer holds at most 64 characters, all of them digits of
\* the input base; a digit typed when it holds 64 changes nothing.
C8_TokenBounded ==
    /\ [](/\ Len(inputBuffer) <= 64
          /\ \A k \in DOMAIN inputBuffer : ValidDigit(inputBuffer[k], inputBase))
    /\ [][NormalState /\ Len(inputBuffer) = 64 /\ ValidDigit(ch', inputBase) =>
             UNCHANGED <<pc, inputBase, oBases, history, inputBuffer, expressionBuffer,
                         expressionBufferCapacity, commandBuffer, command,
                         justDisplayedResult>>]_vars

\* A Raw Token Buffer of 64 digits of base 16.
C8_FullToken ==
    /\ NormalState
    /\ inputBase = HEX
    /\ Len(inputBuffer) = 64
    /\ ch = Filler

\* C9: the Expression Buffer consists of digits of the input base and of
\* operator characters, and the expression an Enter would commit
\* transliterates from the input base to base ten.
C9_ExpressionTransliterates ==
    /\ \A k \in DOMAIN expressionBuffer :
           \/ ValidDigit(expressionBuffer[k], inputBase)
           \/ expressionBuffer[k] \in {"+", "-", "*", "/"}
    /\ Running => convert_expression(Str(EnterCommitted), inputBase, DECIMAL).ok

\* An expression with a letter digit is pending in base 16.
C9_PendingHexExpression ==
    /\ NormalState
    /\ inputBase = HEX
    /\ expressionBuffer = <<"F", "+">>
    /\ inputBuffer = <<"f">>

\* The canonical form of a numeral: its letters in uppercase, its leading
\* zeros removed (a numeral of zeros only is "0").
Canon(t) ==
    LET upper == [k \in DOMAIN t |-> toupper(t[k])]
        sig == Significant(upper)
    IN  IF sig = <<>> THEN <<"0">> ELSE sig

\* The magnitude of a numeral modulo 2^64, and whether it reaches 2^64.
MagnitudeStep(st, base, c) ==
    LET r == U64MulAddFull(st.value, base, char_to_digit(c))
    IN  [value |-> r.val, wraps |-> st.wraps \/ r.carry > 0]
RECURSIVE MagnitudeRange(_, _, _, _, _)
MagnitudeRange(t, base, lo, hi, st) ==
    IF lo > hi THEN st
    ELSE IF lo = hi THEN MagnitudeStep(st, base, t[lo])
    ELSE LET mid == (lo + hi) \div 2
             left == MagnitudeRange(t, base, lo, mid, st)
         IN  \* either way the right half continues from the left half
             IF left.wraps THEN MagnitudeRange(t, base, mid + 1, hi, left)
             ELSE MagnitudeRange(t, base, mid + 1, hi, left)
Magnitude(t, base) ==
    MagnitudeRange(t, base, 1, Len(t), [value |-> U64Zero, wraps |-> FALSE])

\* The keystroke just read was one of + - * /, in Normal state.
OperatorPressed == NormalState /\ ch' \in {"+", "-", "*", "/"}

\* What that keystroke appended in front of the operator character.
Appended == SubSeq(expressionBuffer', Len(expressionBuffer) + 1, Len(expressionBuffer') - 1)

OperatorFrame ==
    /\ Len(expressionBuffer') > Len(expressionBuffer)
    /\ SubSeq(expressionBuffer', 1, Len(expressionBuffer)) = expressionBuffer
    /\ expressionBuffer'[Len(expressionBuffer')] = ch'
    /\ inputBuffer' = <<>>
    /\ history' = history /\ inputBase' = inputBase /\ oBases' = oBases

\* C10: an operator keystroke in Normal state appends the canonical numeral
\* whose magnitude is that of the Raw Token Buffer modulo 2^64 ("0" when the
\* buffer is empty), then the operator character; it empties the Raw Token
\* Buffer and leaves history and configuration alone.
C10_OperatorCommitsModulo ==
    [][OperatorPressed =>
          /\ OperatorFrame
          /\ IF inputBuffer = <<>> THEN Appended = <<"0">>
             ELSE /\ Appended = Canon(Appended)
                  /\ ~Magnitude(Appended, inputBase).wraps
                  /\ Magnitude(Appended, inputBase).value
                         = Magnitude(inputBuffer, inputBase).value]_vars

\* C10 as stated: the numeral appended has the magnitude of the Raw Token
\* Buffer itself, so it is the canonical form of that buffer.
C10_OperatorCommitsCanonical ==
    [][OperatorPressed =>
          /\ OperatorFrame
          /\ Appended = IF inputBuffer = <<>> THEN <<"0">> ELSE Canon(inputBuffer)]_vars

\* A token of 21 ones has been committed in base ten: its magnitude is above
\* 2^64 and the numeral committed is that magnitude modulo 2^64.
C10_WrappedCommit ==
    /\ NormalState /\ ch = "+"
    /\ inputBase = DECIMAL
    /\ inputBuffer = <<>>
    /\ expressionBuffer = <<"4", "3", "0", "6", "4", "6", "6", "6", "8", "8", "5", "3",
                            "8", "0", "1", "4", "1", "5", "+">>

\* What an operator keystroke commits before it appends the operator.
OperatorCommitted ==
    handle_operators(inputBase,
                     [buf |-> expressionBuffer, cap |-> expressionBufferCapacity],
                     inputBuffer).buf

\* C11: Enter in Normal state commits the Raw Token Buffer exactly as an
\* operator keystroke does (the canonical numeral, or "0" when the buffer is
\* empty) and evaluates that.
C11_EnterCommitsAsOperator ==
    [][EnterPressed => EnterCommitted = OperatorCommitted]_vars

\* C12: Enter in Normal state with both buffers empty evaluates "0": it
\* appends the entry ("0", inputBase, 0), leaves both buffers empty and sets
\* PostResult.
C12_EnterOnEmptyRecordsZero ==
    [][EnterPressed /\ inputBuffer = <<>> /\ expressionBuffer = <<>> =>
          /\ history' = Append(history, [expression |-> <<"0">>, base |-> inputBase,
                                         result |-> U64Zero])
          /\ inputBuffer' = <<>>
          /\ expressionBuffer' = <<>>
          /\ justDisplayedResult']_vars

\* Enter pressed twice on empty buffers: two entries ("0", 10, 0).
C12_TwoZeroEntries ==
    /\ NormalState /\ ch = ENTER /\ justDisplayedResult
    /\ inputBuffer = <<>> /\ expressionBuffer = <<>>
    /\ history = <<[expression |-> <<"0">>, base |-> DECIMAL, result |-> U64Zero],
                   [expression |-> <<"0">>, base |-> DECIMAL, result |-> U64Zero]>>

\* The value of a decimal numeral of at most two significant digits.
BaseNumeralValue(t) ==
    LET sig == Significant(t)
    IN  IF Len(sig) = 1 THEN DecimalDigit(sig[1])
        ELSE 10 * DecimalDigit(sig[1]) + DecimalDigit(sig[2])

\* C13: the command i followed by a decimal numeral N in 2..36 sets the input
\* base to N and empties both buffers; the output bases and the history stay.
C13_InputBaseCommandSets ==
    [][\A line \in CommandLines :
          (/\ DispatchOf(line)
           /\ Len(line) > 1 /\ line[1] = "i"
           /\ IsBaseNumeral(Tail(line))) =>
              /\ inputBase' = BaseNumeralValue(Tail(line))
              /\ inputBuffer' = <<>>
              /\ expressionBuffer' = <<>>
              /\ UNCHANGED <<oBases, history>>]_vars

\* The input base has been set to 2 in a session that had allocated its
\* Expression Buffer and recorded nothing.
C13_BaseSetToTwo ==
    /\ NormalState /\ ch = ENTER /\ ~justDisplayedResult
    /\ inputBase = BINARY
    /\ inputBuffer = <<>> /\ expressionBuffer = <<>>
    /\ expressionBufferCapacity = MAX_INPUT
    /\ history = <<>>

ListedBases(body) ==
    LET starts == SortedSeq(FieldStarts(body))
    IN  [k \in DOMAIN starts |-> BaseNumeralValue(FieldAt(body, starts[k]))]

\* C15: a :o command whose body is a valid base list replaces the output
\* bases by the listed bases in the listed order; the input base and the
\* history stay.
C15_OutputBaseCommandReplaces ==
    [][\A line \in CommandLines :
          (/\ DispatchOf(line)
           /\ Len(line) > 1 /\ line[1] = "o"
           /\ BaseList(Tail(line))) =>
              /\ oBases' = ListedBases(Tail(line))
              /\ UNCHANGED <<inputBase, history>>]_vars

\* The output bases have been replaced by 16, 2 in a session of input base 10
\* that has a recorded entry.
C15_BasesReplaced ==
    /\ NormalState /\ ch = ENTER /\ ~justDisplayedResult
    /\ oBases = <<HEX, BINARY>>
    /\ inputBase = DECIMAL
    /\ Len(history) = 1

\* The keys Normal state acts on besides the digits.
ActionKeys == {":", ESC, BACK_SPACE, ENTER, "+", "-", "*", "/"}

\* A keystroke is read while PostResult is set.
PostResultSet == NormalState /\ justDisplayedResult

\* C16: while PostResult is set, a keystroke that is no action key and no
\* valid digit of the input base clears PostResult and does nothing else:
\* both buffers stay empty; the command flag, the Command Buffer, the
\* configuration and the history are unchanged.
C16_InvalidKeyAfterResult ==
    [][(/\ PostResultSet
        /\ ch' \notin ActionKeys \cup {"EOF"}
        /\ ~ValidDigit(ch', inputBase)) =>
           /\ ~justDisplayedResult'
           /\ inputBuffer' = <<>>
           /\ expressionBuffer' = <<>>
           /\ UNCHANGED <<pc, command, commandBuffer, inputBase, oBases, history>>]_vars

\* Z has been typed in base 10 after one recorded result.
C16_InvalidKeyDiscarded ==
    /\ NormalState /\ ch = "Z" /\ ~justDisplayedResult
    /\ inputBase = DECIMAL
    /\ Len(history) = 1
    /\ inputBuffer = <<>> /\ expressionBuffer = <<>>

\* C17: while PostResult is set, an action key or a valid digit clears
\* PostResult and then acts as it does in Normal state on empty buffers: a
\* digit starts a Raw Token Buffer holding that digit; an operator leaves the
\* Expression Buffer "0" followed by the operator; colon enters Command
\* state; Escape and Backspace leave the buffers empty; Enter records
\* ("0", inputBase, 0) and sets PostResult again.
C17_ActionKeyAfterResult ==
    [][(/\ PostResultSet
        /\ ch' \in ActionKeys \/ ValidDigit(ch', inputBase)) =>
           /\ justDisplayedResult' = (ch' = ENTER)
           /\ inputBuffer' = IF ValidDigit(ch', inputBase) THEN <<ch'>> ELSE <<>>
           /\ expressionBuffer' = IF ch' \in OperatorKeys THEN <<"0", ch'>> ELSE <<>>
           /\ command' = (ch' = ":")
           /\ commandBuffer' = <<>>
           /\ history' = IF ch' = ENTER
                         THEN Append(history, [expression |-> <<"0">>, base |-> inputBase,
                                               result |-> U64Zero])
                         ELSE history
           /\ UNCHANGED <<pc, inputBase, oBases>>]_vars

\* An operator has been typed in base 16 right after one recorded result.
C17_OperatorAfterResult ==
    /\ NormalState /\ ch = "+" /\ ~justDisplayedResult
    /\ inputBase = HEX
    /\ Len(history) = 1
    /\ inputBuffer = <<>> /\ expressionBuffer = <<"0", "+">>

\* Normal state with PostResult unset.
PlainNormal == NormalState /\ ~justDisplayedResult

\* C18: Escape in Normal state empties both buffers and evaluates nothing:
\* the history, the configuration and both flags are unchanged.
C18_EscapeClears ==
    [][PlainNormal /\ ch' = ESC =>
          /\ inputBuffer' = <<>>
          /\ expressionBuffer' = <<>>
          /\ UNCHANGED <<pc, history, inputBase, oBases, command, commandBuffer,
                         justDisplayedResult>>]_vars

\* Escape has been pressed in a session whose Expression Buffer had outgrown
\* its first allocation, and nothing is recorded.
C18_LongExpressionEscaped ==
    /\ NormalState /\ ch = ESC /\ ~justDisplayedResult
    /\ expressionBufferCapacity > MAX_INPUT
    /\ inputBuffer = <<>> /\ expressionBuffer = <<>>
    /\ history = <<>>

\* C19: Backspace in Normal state removes the last character of the Raw Token
\* Buffer, or nothing when that buffer is empty; the Expression Buffer, the
\* history, the configuration and both flags are unchanged.
C19_BackspaceRemovesLast ==
    [][PlainNormal /\ ch' = BACK_SPACE =>
          /\ inputBuffer' = IF inputBuffer = <<>> THEN <<>>
                             ELSE SubSeq(inputBuffer, 1, Len(inputBuffer) - 1)
          /\ UNCHANGED <<pc, expressionBuffer, expressionBufferCapacity, history,
                         inputBase, oBases, command, commandBuffer,
                         justDisplayedResult>>]_vars

\* Backspace has taken the last digit off a full Raw Token Buffer.
C19_FullTokenShortened ==
    /\ NormalState /\ ch = BACK_SPACE
    /\ Len(inputBuffer) = MAX_INPUT - 1

\* C20: in Normal state a keystroke that is no action key and no valid digit
\* of the input base leaves the session as it was: both buffers, both flags,
\* the configuration and the history.
C20_InvalidKeyIgnored ==
    [][(/\ PlainNormal
        /\ ch' \notin ActionKeys \cup {"EOF"}
        /\ ~ValidDigit(ch', inputBase)) =>
           UNCHANGED <<pc, inputBase, oBases, history, inputBuffer, expressionBuffer,
                       expressionBufferCapacity, commandBuffer, command,
                       justDisplayedResult>>]_vars

\* A percent sign has been typed behind a pending expression and token.
C20_PercentIgnored ==
    /\ NormalState /\ ch = "%" /\ ~justDisplayedResult
    /\ expressionBuffer = <<"0", "+">>
    /\ inputBuffer = <<"1">>

\* C21: dispatching the command h, an empty command, or any command whose
\* first character is neither i nor o returns to Normal state with an empty
\* Command Buffer and changes nothing else: both buffers, the configuration,
\* the history and PostResult are as they were.
C21_OtherCommandsChangeNothing ==
    [][\A line \in CommandLines :
          (DispatchOf(line) /\ (line = <<>> \/ line[1] \notin {"i", "o"})) =>
              /\ ~command'
              /\ commandBuffer' = <<>>
              /\ UNCHANGED <<pc, inputBuffer, expressionBuffer, expressionBufferCapacity,
                             inputBase, oBases, history, justDisplayedResult>>]_vars

\* A command has been dispatched behind a recorded entry and a pending token,
\* and both are still there.
C21_DispatchedBesideToken ==
    /\ NormalState /\ ch = ENTER /\ ~justDisplayedResult
    /\ Len(history) = 1
    /\ inputBuffer = <<"1">>
    /\ inputBase = DECIMAL /\ oBases = <<BINARY, DECIMAL, HEX>>

(***************************************************************************)
(* Properties of the numeral codec.                                        *)
(***************************************************************************)
\* C22: for a base in 2..36, parsing in that base the text that formatting a
\* value in that base produced returns the value.
C22_FormatThenParseReturnsValue ==
    (pc = "done" /\ given.base \in 2..36) => produced.value = given.value

\* 2^64 - 1 has been formatted in base 36 and parsed back.
C22_LargestValueBase36 ==
    /\ pc = "done"
    /\ given = [value |-> <<65535, 65535, 65535, 65535>>, base |-> 36]
    /\ produced.value = <<65535, 65535, 65535, 65535>>

\* A numeral of the digits 0-9 and A-Z below the base, most significant
\* first, with no leading zero.
CanonicalNumeral(t, base) ==
    /\ t # <<>>
    /\ \A k \in DOMAIN t : \E d \in 0..(base - 1) :
           t[k] = (IF d <= 9 THEN DigitChars[d + 1] ELSE UpperChars[d - 9])
    /\ Len(t) > 1 => t[1] # "0"

\* C23: formatting in a base of 2..36 yields "0" for the value 0 and otherwise
\* the numeral of that value with no leading zero, in the digits 0-9 and A-Z
\* below the base; a base outside 2..36 yields failure.
C23_FormatIsCanonical ==
    pc = "done" =>
        IF given.base \in 2..36
        THEN /\ produced.text.ok
             /\ given.value = U64Zero => produced.text.str = <<"0">>
             /\ CanonicalNumeral(produced.text.str, given.base)
             /\ Magnitude(produced.text.str, given.base)
                    = [value |-> given.value, wraps |-> FALSE]
        ELSE ~produced.text.ok

\* 35 has been formatted in base 36: the one digit Z.
C23_LastDigitOfBase36 ==
    /\ pc = "done"
    /\ given = [value |-> U64(35), base |-> 36]
    /\ produced.text = Str(<<"Z">>)

(***************************************************************************)
(* Properties of the transliterator.                                       *)
(***************************************************************************)
\* The characters a transliteration copies: the six operators, the
\* parentheses and whitespace.
Copied(c) == c \in {"+", "-", "*", "/", "%", "^", "(", ")", " ", "\t", "\n", "\r"}

\* An expression of digits of the base and copied characters only.
Transliterable(e, base) ==
    \A k \in DOMAIN e : ValidDigit(e[k], base) \/ Copied(e[k])

\* The pieces of an expression in order: its maximal runs of digits of the
\* base, and each of its other characters by itself.
PieceStarts(e, base) ==
    {i \in DOMAIN e : ~ValidDigit(e[i], base) \/ i = 1 \/ ~ValidDigit(e[i - 1], base)}
PieceAt(e, base, i) ==
    IF ~ValidDigit(e[i], base) THEN <<e[i]>>
    ELSE SubSeq(e, i, CHOOSE j \in i..Len(e) :
                          /\ \A k \in i..j : ValidDigit(e[k], base)
                          /\ j = Len(e) \/ ~ValidDigit(e[j + 1], base))
Pieces(e, base) ==
    LET starts == SortedSeq(PieceStarts(e, base))
    IN  [k \in DOMAIN starts |-> PieceAt(e, base, starts[k])]

\* Piece by piece the result has, for a run of digits, the canonical numeral
\* of the output base that Same relates to the run, and for any other
\* character that character.
TransliteratedBy(Same(_, _, _, _), e, fromBase, result, toBase) ==
    LET from == Pieces(e, fromBase)
        to == Pieces(result, toBase)
    IN  /\ Len(to) = Len(from)
        /\ \A k \in DOMAIN from :
               IF ValidDigit(from[k][1], fromBase)
               THEN /\ CanonicalNumeral(to[k], toBase)
                    /\ Same(from[k], fromBase, to[k], toBase)
               ELSE to[k] = from[k]

SameMagnitude(t, b, u, c) ==
    /\ ~Magnitude(t, b).wraps /\ ~Magnitude(u, c).wraps
    /\ Magnitude(t, b).value = Magnitude(u, c).value
SameModulo(t, b, u, c) == Magnitude(t, b).value = Magnitude(u, c).value

\* C24 (as amended): a transliteration from base B to base C fails when the
\* expression has a character that is neither a digit of base B nor an
\* operator, a parenthesis or whitespace; otherwise it replaces each maximal
\* run of base-B digits by the canonical base-C numeral of the run's
\* magnitude modulo 2^64 and copies every other character in place.
C24_TransliteratesModulo ==
    pc # "call" =>
        IF Transliterable(given.expression, given.inputBase)
        THEN /\ produced[1].ok
             /\ TransliteratedBy(SameModulo, given.expression, given.inputBase,
                                  produced[1].str, given.outputBase)
        ELSE ~produced[1].ok

\* C24 (as stated): the same, each run replaced by the canonical base-C
\* numeral of the same magnitude.
C24_TransliteratesMagnitude ==
    pc # "call" =>
        IF Transliterable(given.expression, given.inputBase)
        THEN /\ produced[1].ok
             /\ TransliteratedBy(SameMagnitude, given.expression, given.inputBase,
                                  produced[1].str, given.outputBase)
        ELSE ~produced[1].ok

\* A numeral of 17 digits of base 16 has been transliterated to base 10: the
\* numeral of its magnitude less 2^64.
C24_WrappedRun ==
    /\ pc = "there"
    /\ given = [expression |-> [k \in 1..17 |-> "1"], inputBase |-> HEX,
                outputBase |-> DECIMAL]
    /\ produced[1] = Str(<<"1", "2", "2", "9", "7", "8", "2", "9", "3", "8", "2",
                           "4", "7", "3", "0", "3", "4", "4", "1">>)

\* C25: for an expression of base-B digits, operators, parentheses and
\* whitespace, the transliteration to base C and back to base B evaluates,
\* once transliterated to base 10, to the outcome (the value, or failure)
\* of the base-10 transliteration of the expression itself.
C25_RoundTripEvaluatesAlike ==
    (pc = "back" /\ Transliterable(given.expression, given.inputBase)) =>
        LET direct == convert_expression(Str(given.expression), given.inputBase, DECIMAL)
            returned == convert_expression(produced[2], given.inputBase, DECIMAL)
        IN  /\ produced[2].ok
            /\ direct.ok /\ returned.ok
            /\ evaluate_expression(returned) = evaluate_expression(direct)
            /\ evaluate_expression(direct).st = "unk" => returned.str = direct.str

\* f+1 of base 16 has gone to base 2 and come back as F+1, which evaluates
\* to 16 as f+1 does.
C25_HexSumThroughBinary ==
    /\ pc = "back"
    /\ given = [expression |-> <<"f", "+", "1">>, inputBase |-> HEX,
                outputBase |-> BINARY]
    /\ produced = <<Str(<<"1", "1", "1", "1", "+", "1">>), Str(<<"F", "+", "1">>)>>
    /\ evaluate_expression(convert_expression(produced[2], HEX, DECIMAL))
           = [st |-> "ok", result |-> U64(16)]

(***************************************************************************)
(* Properties of the evaluator.                                            *)
(***************************************************************************)
Returned(v) == [st |-> "ok", result |-> U64(v)]

\* The binding strength of a binary operator.
Level(op) == IF op \in {"+", "-"} THEN 1 ELSE IF op \in {"*", "/", "%"} THEN 2 ELSE 3

\* a op1 b op2 c with the parentheses the precedence and the associativity
\* put around two of its operands.
Grouped(a, op1, b, op2, c) ==
    IF Level(op2) > Level(op1) \/ (op1 = "^" /\ op2 = "^")
    THEN <<a, op1, "(", b, op2, c, ")">>
    ELSE <<"(", a, op1, b, ")", op2, c>>

\* s a op b with the parentheses that put the sign below ^ and above the
\* other operators.
GroupedSign(s, a, op, b) ==
    IF op = "^" THEN <<s, "(", a, op, b, ")">> ELSE <<"(", s, a, ")", op, b>>

\* x op y in the integers, for + - *
IntegerOp(op, x, y) == IF op = "+" THEN x + y ELSE IF op = "-" THEN x - y ELSE x * y

\* The outcome for the whole number v.
OfInteger(v) == IF v < 0 THEN EvalFail ELSE Returned(v)

\* C26: the evaluator gives 14 for "2 + 3 * 4", 20 for "(2 + 3) * 4" and 512
\* for "2 ^ 3 ^ 2", and fails on "-2^2"; a text of three operands and two
\* operators evaluates as the text with parentheses around the operator that
\* binds more (* / % above + -, ^ above both), around the left one of two
\* operators of the same level and around the right one of two ^; a sign
\* before two operands applies to the whole power and to the first operand
\* of any other operator; with + - * the value is the one of the integers.
C26_PrecedenceAndAssociativity ==
    pc = "done" =>
        /\ given = <<"2", " ", "+", " ", "3", " ", "*", " ", "4">> => produced = Returned(14)
        /\ given = <<"(", "2", " ", "+", " ", "3", ")", " ", "*", " ", "4">> => produced = Returned(20)
        /\ given = <<"2", " ", "^", " ", "3", " ", "^", " ", "2">> => produced = Returned(512)
        /\ given = <<"-", "2", "^", "2">> => produced = EvalFail
        /\ \A a, b, c \in EvalOperands : \A op1, op2 \in EvalOperators :
               given = <<a, op1, b, op2, c>> =>
                   /\ produced \in Stored(evaluate_expression(
                                              Str(Grouped(a, op1, b, op2, c))))
                   /\ {op1, op2} \subseteq {"+", "-", "*"} =>
                          produced = OfInteger(
                              IF Level(op2) > Level(op1)
                              THEN IntegerOp(op1, char_to_digit(a),
                                       IntegerOp(op2, char_to_digit(b), char_to_digit(c)))
                              ELSE IntegerOp(op2,
                                       IntegerOp(op1, char_to_digit(a), char_to_digit(b)),
                                       char_to_digit(c)))
        /\ \A s \in {"-", "+"} : \A a, b \in EvalOperands : \A op \in EvalOperators :
               given = <<s, a, op, b>> =>
                   produced \in Stored(evaluate_expression(Str(GroupedSign(s, a, op, b))))

\* The call on "2^3^2" has returned 512 ((2^3)^2 is 64).
C26_PowerOfPower ==
    /\ pc = "done"
    /\ given = <<"2", "^", "3", "^", "2">>
    /\ produced = Returned(512)

\* C27: the evaluator fails on "5 / 0", "5 % (3 - 3)", "0 / 0" and "6/0-2",
\* on a / or % before the literal 0 and on a / or % whose right operand is a
\* power or a parenthesised difference with value 0; the keys 6, /, -, 2 and
\* Enter of a session in base 10 commit the text "6/0-2", and that evaluation
\* fails.
C27_DivisionByZeroFails ==
    pc = "done" =>
        /\ given \in {<<"5", " ", "/", " ", "0">>,
                      <<"5", " ", "%", " ", "(", "3", " ", "-", " ", "3", ")">>,
                      <<"0", " ", "/", " ", "0">>,
                      <<"1", "/", "(", "2", "-", "2", ")">>,
                      <<"6", "/", "0", "-", "2">>} => produced = EvalFail
        /\ \A a \in EvalOperands : \A op \in {"/", "%"} :
               given = <<a, op, "0">> => produced = EvalFail
        /\ \A a, b, c \in EvalOperands : \A op1, op2 \in EvalOperators :
               /\ given = <<a, op1, b, op2, c>>
               /\ \/ op2 \in {"/", "%"} /\ c = "0"
                  \/ op1 \in {"/", "%"} /\ op2 # "^" /\ b = "0"
                  \/ op1 \in {"/", "%"} /\ op2 = "^" /\ b = "0" /\ c # "0"
               => produced = EvalFail
        /\ given = <<"6", "/", "0", "-", "2">> =>
               LET afterSlash == handle_operator_input("/", DECIMAL,
                                     [buf |-> <<>>, cap |-> 0], <<"6">>)
                   afterMinus == handle_operator_input("-", DECIMAL, afterSlash, <<>>)
                   afterEnter == handle_enter_key(DECIMAL, <<>>, afterMinus, <<"2">>)
               IN  /\ afterEnter.committed = given
                   /\ afterEnter.st = "fail"
                   /\ afterEnter.history = <<>>

\* The call on "5 % (3 - 3)" has failed.
C27_RemainderByDifference ==
    /\ pc = "done"
    /\ given = <<"5", " ", "%", " ", "(", "3", " ", "-", " ", "3", ")">>
    /\ produced = EvalFail

\* C28: a call of the evaluator that succeeds has stored a result below 2^53;
\* "-1", "3 - 5" and the numeral of 2^53 fail, "3 - 5 + 4" gives 2 and the
\* numeral of 2^53 - 1 gives 2^53 - 1.
C28_SucceedsOnlyInRange ==
    pc = "done" =>
        /\ produced.st = "ok" => U64Below2Pow53(produced.result)
        /\ given \in {<<"-", "1">>, <<"3", " ", "-", " ", "5">>,
                      <<"9", "0", "0", "7", "1", "9", "9", "2", "5", "4", "7", "4", "0", "9", "9", "2">>} => produced = EvalFail
        /\ given = <<"3", " ", "-", " ", "5", " ", "+", " ", "4">> => produced = Returned(2)
        /\ given = <<"9", "0", "0", "7", "1", "9", "9", "2", "5", "4", "7", "4", "0", "9", "9", "1">> =>
               produced = [st |-> "ok", result |-> <<65535, 65535, 65535, 31>>]

\* The text without the white space at its ends.
Trim(t) ==
    LET inked == {k \in 1..Len(t) : ~isspace(t[k])}
    IN  IF inked = {} THEN <<>>
        ELSE SubSeq(t, CHOOSE k \in inked : \A m \in inked : k <= m,
                       CHOOSE k \in inked : \A m \in inked : m <= k)

\* The grammar of the evaluator, by the shape of the text:
\*   Expression := Term (('+'|'-') Term)*
\*   Term       := Factor (('*'|'/'|'%') Factor)*
\*   Factor     := ('+'|'-')? Power
\*   Power      := (Number | '(' Expression ')') ('^' Power)?
\* with a Number an optional sign and decimal digits.
IsNumber(t) ==
    LET u == Trim(t)
        digits == IF u # <<>> /\ u[1] \in {"+", "-"} THEN Tail(u) ELSE u
    IN  digits # <<>> /\ \A k \in 1..Len(digits) : isdigit(digits[k])

RECURSIVE IsExpression(_)
RECURSIVE IsPower(_)

IsPrimary(t) ==
    LET u == Trim(t)
    IN  \/ IsNumber(u)
        \/ /\ Len(u) >= 2
           /\ u[1] = "(" /\ u[Len(u)] = ")"
           /\ IsExpression(SubSeq(u, 2, Len(u) - 1))

IsPower(t) ==
    \/ IsPrimary(t)
    \/ \E k \in 1..Len(t) :
           /\ t[k] = "^"
           /\ IsPrimary(SubSeq(t, 1, k - 1))
           /\ IsPower(SubSeq(t, k + 1, Len(t)))

IsFactor(t) ==
    LET u == Trim(t)
    IN  \/ IsPower(u)
        \/ u # <<>> /\ u[1] \in {"+", "-"} /\ IsPower(Tail(u))

RECURSIVE IsTerm(_)
IsTerm(t) ==
    \/ IsFactor(t)
    \/ \E k \in 1..Len(t) :
           /\ t[k] \in {"*", "/", "%"}
           /\ IsTerm(SubSeq(t, 1, k - 1))
           /\ IsFactor(SubSeq(t, k + 1, Len(t)))

IsExpression(t) ==
    \/ IsTerm(t)
    \/ \E k \in 1..Len(t) :
           /\ t[k] \in {"+", "-"}
           /\ IsExpression(SubSeq(t, 1, k - 1))
           /\ IsTerm(SubSeq(t, k + 1, Len(t)))

\* C29: the evaluator fails on every text that is not one Expression of the
\* grammar from its first character to its last, and a call that did not
\* fail was given an Expression: characters after a full parse ("2 3+",
\* "2 3"), an operator without its right operand ("5+"), a parenthesis that
\* is not closed ("(2+3") or not opened ("2+3)"), the empty text and a text
\* of white space all fail.
C29_MalformedTextFails ==
    pc = "done" =>
        /\ ~IsExpression(given) => produced = EvalFail
        /\ given \in {<<"2", " ", "3", "+">>, <<"(", "2", "+", "3">>,
                      <<"2", "+", "3", ")">>, <<>>, <<" ", " ", " ", " ">>} =>
               produced = EvalFail
        /\ \A a, b \in EvalOperands : \A op \in EvalOperators :
               given \in {<<a, op>>, <<a, " ", b>>, <<"(", a>>, <<a, ")">>, <<" ">>}
                   => produced = EvalFail

\* The call on "2+3)" has failed: "2+3" is parsed and ")" is left.
C29_ParenthesisNotOpened ==
    /\ pc = "done"
    /\ given = <<"2", "+", "3", ")">>
    /\ produced = EvalFail

(***************************************************************************)
(* Properties of file mode.                                                *)
(***************************************************************************)
\* The line without the line feeds and carriage returns at its end.
Stripped(line) ==
    LET kept == {n \in 0..Len(line) :
                    /\ n = 0 \/ line[n] \notin {"\n", "\r"}
                    /\ \A k \in (n + 1)..Len(line) : line[k] \in {"\n", "\r"}}
    IN  SubSeq(line, 1, CHOOSE n \in kept : TRUE)

\* The report of one line read in the base and with the output bases given:
\* the message when the line does not transliterate to base 10 or does not
\* evaluate, otherwise the line with the base, and numerals of the result in
\* the base and in each output base, in their order.
ReportsLine(report, line, base, bases) ==
    LET text == Stripped(line)
        decimal == convert_expression(Str(text), base, DECIMAL)
    IN  /\ report.expression = text
        /\ report.failed <=> (~decimal.ok \/ evaluate_expression(decimal).st = "fail")
        /\ ~report.failed =>
               /\ report.base = base
               /\ \E evaluation \in Stored(evaluate_expression(decimal)) :
                      /\ convert_str_to_int_any_base(Str(report.result), base)
                             = evaluation.result
                      /\ DOMAIN report.outputs = 1..Len(bases)
                      /\ \A i \in 1..Len(bases) :
                             /\ report.outputs[i].base = bases[i]
                             /\ convert_str_to_int_any_base(Str(report.outputs[i].text),
                                                            bases[i])
                                    = evaluation.result

\* Every line read so far has its own report, and the loop has ended only
\* after the last line.
EachLineReported ==
    /\ given # <<>> =>
           /\ Len(produced) <= Len(given)
           /\ \A k \in 1..Len(produced) :
                  ReportsLine(produced[k], given[k], inputBase, oBases)
    /\ pc = "return" /\ given # <<>> => Len(produced) = Len(given)

\* C30: in file mode the k-th report is the report of the k-th line alone,
\* read in the startup inputBase and shown in the startup outputBases,
\* whatever the lines before it did: a line that does not transliterate or
\* evaluate gets the error message, and while a line is left the step taken
\* reports that line and stays in the loop, so that the loop ends only with
\* one report for every line of the file; no step changes inputBase,
\* outputBases or the history.
C30_FileLinesIndependent ==
    /\ []EachLineReported
    /\ [][/\ UNCHANGED <<inputBase, oBases, history>>
          /\ Len(produced) < Len(given) =>
                 /\ pc' = "getline"
                 /\ Len(produced') = Len(produced) + 1
                 /\ SubSeq(produced', 1, Len(produced)) = produced]_vars

\* A file whose first line failed and whose second line was evaluated.
C30_SecondLineAfterFailure ==
    /\ pc = "return"
    /\ Len(produced) = 2
    /\ produced[1].failed
    /\ ~produced[2].failed
    /\ history = <<>>

\* The report of a line and what Enter leaves for the same text in the same
\* base: both fail, or both succeed with the same magnitude.
SameOutcome(report, enter, base) ==
    IF enter.st = "nan"
    THEN /\ ~report.failed
         /\ convert_str_to_int_any_base(Str(report.result), base)
                \in {o.result : o \in Stored([st |-> "nan", result |-> U64Zero])}
    ELSE /\ report.failed <=> enter.st = "fail"
         /\ ~report.failed =>
                /\ enter.st = "ok"
                /\ Len(enter.history) = 1
                /\ enter.history[1].result
                       = convert_str_to_int_any_base(Str(report.result), base)

\* C31: the report file mode writes for a line and the outcome of
\* evaluate_and_display_result on an Expression Buffer holding the same text,
\* in the same inputBase, agree: both are the failure, or both are a success
\* with the same magnitude.
C31_FileAndEnterAgree ==
    given # <<>> =>
        \A k \in 1..Len(produced) :
            SameOutcome(produced[k],
                        evaluate_and_display_result(inputBase, <<>>,
                            [buf |-> produced[k].expression, cap |-> MAX_INPUT]),
                        inputBase)

\* The line "f+1" of a file read in base 16 has been reported as a success.
C31_HexLineReported ==
    /\ pc = "return"
    /\ inputBase = HEX
    /\ Len(produced) = 2
    /\ produced[2].expression = <<"f", "+", "1">>
    /\ ~produced[2].failed
    /\ evaluate_and_display_result(HEX, <<>>,
           [buf |-> <<"f", "+", "1">>, cap |-> MAX_INPUT]).st = "ok"

(***************************************************************************)
(* Further properties of the session.                                      *)
(***************************************************************************)
\* C32: the command i with an empty body, with a body that has a character
\* other than a decimal digit, or with a decimal numeral whose value is
\* outside 2..36, changes neither the input base, nor the output bases, nor
\* a buffer, nor the history.
C32_InvalidInputBaseIgnored ==
    [][\A line \in CommandLines :
          (/\ DispatchOf(line)
           /\ Len(line) > 0 /\ line[1] = "i"
           /\ ~IsBaseNumeral(Tail(line))) =>
              UNCHANGED <<inputBase, oBases, inputBuffer, expressionBuffer, history>>]_vars

\* C33: the PostResult flag is set after a keystroke only when that keystroke
\* was Enter read in Normal state; after any other keystroke, whether it was
\* read in Normal state, in Command state or with the flag set, the flag is
\* not set.
C33_PostResultOneKeystroke ==
    [][ch' # "EOF" /\ justDisplayedResult' => ch' = ENTER /\ ~command]_vars

\* A colon typed after a result: the flag is down and Command state entered.
C33_ColonAfterResult ==
    /\ pc = "getchar"
    /\ ch = ":" /\ command
    /\ ~justDisplayedResult
    /\ Len(history) = 1
    /\ commandBuffer = <<>>

\* C34: a colon read in Normal state enters Command state with an empty
\* Command Buffer and leaves both buffers as they were; in Command state a
\* key other than Enter is appended to the Command Buffer, or dropped when
\* the buffer holds 127 characters, and changes no buffer, no base and no
\* history; Enter in Command state leaves the session in Normal state with
\* an empty Command Buffer.
C34_CommandStateKeys ==
    [][/\ NormalState /\ ch' = ":" =>
              /\ command' /\ commandBuffer' = <<>>
              /\ UNCHANGED <<inputBuffer, expressionBuffer>>
       /\ CommandState /\ ch' \notin {ENTER, "EOF"} =>
              /\ command'
              /\ commandBuffer' = IF Len(commandBuffer) < 127
                                  THEN Append(commandBuffer, ch')
                                  ELSE commandBuffer
              /\ UNCHANGED <<inputBuffer, expressionBuffer, inputBase, oBases, history>>
       /\ CommandState /\ ch' = ENTER =>
              /\ pc' = "getchar"
              /\ ~command' /\ commandBuffer' = <<>>]_vars

\* What the parsers make of the Raw Token Buffer followed by the key c.
ParsedWith(c) == convert_any_base_to_base_ten(Str(Append(inputBuffer, c)), inputBase)

\* C35: the parse of the Raw Token Buffer is the decimal numeral of its
\* magnitude modulo 2^64, whatever that magnitude is, and the same value for
\* convert_str_to_int_any_base; with one more character whose digit value is
\* not below the base the parse fails; an operator keystroke on a Raw Token
\* Buffer whose magnitude is 2^64 or more is not refused: it appends the
\* numeral of that magnitude modulo 2^64 and the operator.
C35_ParseWrapsModulo ==
    /\ [](Running =>
            /\ convert_any_base_to_base_ten(Str(inputBuffer), inputBase).ok
            /\ Magnitude(convert_any_base_to_base_ten(Str(inputBuffer), inputBase).str,
                         DECIMAL)
                   = [value |-> Magnitude(inputBuffer, inputBase).value, wraps |-> FALSE]
            /\ convert_str_to_int_any_base(Str(inputBuffer), inputBase)
                   = Magnitude(inputBuffer, inputBase).value
            /\ \A c \in DigitKeys \cup OtherKeys :
                   (char_to_digit(c) < 0 \/ char_to_digit(c) >= inputBase) =>
                       /\ ParsedWith(c) = NULL
                       /\ convert_str_to_int_any_base(Str(Append(inputBuffer, c)),
                                                      inputBase) = U64Zero)
    /\ [][OperatorPressed /\ Magnitude(inputBuffer, inputBase).wraps =>
             /\ OperatorFrame
             /\ ~Magnitude(Appended, inputBase).wraps
             /\ Magnitude(Appended, inputBase).value
                    = Magnitude(inputBuffer, inputBase).value]_vars

\* A token of 64 ones has been committed in base ten with the key *: the
\* Expression Buffer holds (10^64 - 1) / 9 modulo 2^64.
C35_SixtyFourOnesCommitted ==
    /\ NormalState /\ ch = "*"
    /\ inputBase = DECIMAL
    /\ inputBuffer = <<>>
    /\ expressionBuffer = <<"8", "1", "9", "8", "5", "5", "2", "9", "2", "1", "6", "4", "8", "6", "8", "9", "6", "0", "7", "*">>

\* Fractions <<numerator, denominator>> with a positive denominator, and
\* <<0, 0>> for a division by zero.
FractionOp(op, x, y) ==
    IF x[2] = 0 \/ y[2] = 0 THEN <<0, 0>>
    ELSE IF op = "+" THEN <<x[1] * y[2] + y[1] * x[2], x[2] * y[2]>>
    ELSE IF op = "-" THEN <<x[1] * y[2] - y[1] * x[2], x[2] * y[2]>>
    ELSE IF op = "*" THEN <<x[1] * y[1], x[2] * y[2]>>
    ELSE IF y[1] = 0 THEN <<0, 0>>
    ELSE IF y[1] > 0 THEN <<x[1] * y[2], x[2] * y[1]>>
    ELSE <<-(x[1] * y[2]), x[2] * (-y[1])>>

\* The outcome for the fraction v: its whole part, when it is not negative.
OfFraction(v) ==
    IF v[2] = 0 \/ v[1] < 0 THEN EvalFail ELSE Returned(v[1] \div v[2])

\* C36: "7 / 2" gives 3, "7 / 2 * 2" gives 7 and "1 / 2 + 1 / 2" gives 1;
\* a text a op1 b op2 c with the operators + - * / gives the whole part of
\* the value computed in the fractions, and a text a / b the whole part of
\* the quotient: no quotient inside the expression loses its fraction.
C36_OnlyFinalValueTruncated ==
    pc = "done" =>
        /\ given = <<"7", " ", "/", " ", "2">> => produced = Returned(3)
        /\ given = <<"7", " ", "/", " ", "2", " ", "*", " ", "2">> => produced = Returned(7)
        /\ given = <<"1", " ", "/", " ", "2", " ", "+", " ", "1", " ", "/", " ", "2">> => produced = Returned(1)
        /\ \A a, b \in EvalOperands :
               given = <<a, "/", b>> /\ produced.st # "unk" =>
                   produced = OfFraction(FractionOp("/", <<char_to_digit(a), 1>>,
                                                    <<char_to_digit(b), 1>>))
        /\ \A a, b, c \in EvalOperands : \A op1, op2 \in {"+", "-", "*", "/"} :
               given = <<a, op1, b, op2, c>> /\ produced.st # "unk" =>
                   produced = OfFraction(
                       IF Level(op2) > Level(op1)
                       THEN FractionOp(op1, <<char_to_digit(a), 1>>,
                                FractionOp(op2, <<char_to_digit(b), 1>>,
                                           <<char_to_digit(c), 1>>))
                       ELSE FractionOp(op2,
                                FractionOp(op1, <<char_to_digit(a), 1>>,
                                           <<char_to_digit(b), 1>>),
                                <<char_to_digit(c), 1>>))

\* The call on "3-3/2" has returned 1, the whole part of 3 - 1.5.
C36_HalfKeptInDifference ==
    /\ pc = "done"
    /\ given = <<"3", "-", "3", "/", "2">>
    /\ produced = Returned(1)

\* C37: in no reachable state are the command flag and the PostResult flag
\* both set: the flag of a displayed result is cleared by the keystroke that
\* enters the Command state, and no keystroke of the Command state sets it.
C37_CommandExcludesPostResult ==
    ~(command /\ justDisplayedResult)

\* The Command state entered by the colon that followed a displayed result,
\* with the letter h typed in it.
C37_CommandAfterResult ==
    /\ pc = "getchar"
    /\ command
    /\ ~justDisplayedResult
    /\ ch = "h"
    /\ commandBuffer = <<"h">>
    /\ Len(history) = 1
    /\ inputBuffer = <<>>
    /\ expressionBuffer = <<>>

\* An expression of (canonical numeral, operator) pairs, every operator one
\* of + - * /: empty, or ending in an operator.
NumeralOperatorPairs(e, base) ==
    LET pieces == Pieces(e, base)
    IN  /\ Len(pieces) % 2 = 0
        /\ \A k \in DOMAIN pieces :
               IF k % 2 = 1 THEN CanonicalNumeral(pieces[k], base)
               ELSE pieces[k] \in {<<"+">>, <<"-">>, <<"*">>, <<"/">>}

\* C38: between keystrokes the Expression Buffer is empty or a sequence of
\* (canonical numeral, operator) pairs ending in an operator, every operator
\* one of + - * / and every numeral in uppercase with no leading zero; none
\* of % ^ ( ) is ever in it.
C38_ExpressionOfPairs ==
    Running =>
        /\ NumeralOperatorPairs(expressionBuffer, inputBase)
        /\ \A k \in DOMAIN expressionBuffer :
               expressionBuffer[k] \notin {"%", "^", "(", ")"}

\* Two pairs are pending in base 16, the second committed by the key *.
C38_TwoPairsPending ==
    /\ NormalState
    /\ ch = "*"
    /\ inputBase = HEX
    /\ inputBuffer = <<>>
    /\ Len(Pieces(expressionBuffer, HEX)) = 4
    /\ \E k \in DOMAIN expressionBuffer : expressionBuffer[k] \in {"A", "F"}

\* The entry evaluates again to what it records: its expression
\* transliterates from its base to base ten, and the evaluation of that text
\* succeeds with the recorded result.
SelfConsistent(entry) ==
    /\ entry.base \in 2..36
    /\ convert_expression(Str(entry.expression), entry.base, DECIMAL).ok
    /\ Evaluation(entry.base, entry.expression) = [st |-> "ok", result |-> entry.result]

\* C39: every entry of the history is self-consistent, with a base of 2..36,
\* and the entries stand oldest first: a keystroke keeps the entries there
\* are in their places and puts a new one after them.
C39_HistorySelfConsistent ==
    /\ [](\A k \in DOMAIN history : SelfConsistent(history[k]))
    /\ [][Running' => /\ Len(history') >= Len(history)
                      /\ \A k \in DOMAIN history : history'[k] = history[k]]_vars

\* An entry of base ten is followed by an entry of base 16 whose expression
\* has a letter digit.
C39_HexEntryAfterDecimal ==
    /\ Running
    /\ Len(history) = 2
    /\ history[1].base = DECIMAL
    /\ history[2].base = HEX
    /\ \E k \in DOMAIN history[2].expression : history[2].expression[k] = "F"
    /\ history[2].result # U64Zero

(***************************************************************************)
(* Properties of the appends under allocation failure.                     *)
(***************************************************************************)
\* C40: an append that cannot obtain its memory is a no-op: the Expression
\* Buffer keeps its content, its length and its block, the append that
\* follows it and obtains its memory appends to that content, and the
\* process is never aborted.
C40_FailedAppendIsNoOp ==
    /\ [][produced'.failed =>
             /\ expressionBuffer' = expressionBuffer
             /\ expressionBufferCapacity' = expressionBufferCapacity
             /\ produced'.block = produced.block]_vars
    /\ [][pc = "operator" /\ produced.failed /\ ~produced'.failed =>
             /\ pc' = "display"
             /\ expressionBuffer' = Append(expressionBuffer, ch)
             /\ produced'.block = "live"]_vars
    /\ [](pc # "abort")

====
